---- MODULE Spec2Model ----
(***************************************************************************)
(* turbodiesel: a read-through / write-invalidate cache layer over Diesel  *)
(* statements.  The module models                                          *)
(*   - the in-memory cache (HashmapCache / HashmapCacheHandle),            *)
(*   - the Redis cache handle (RedisCacheHandle) over the td_get / td_set  *)
(*     / td_invalidate server functions,                                   *)
(*   - the populating row iterator (ResultCachingIterator),                *)
(*   - the lookup row iterator (ResultCacheLookupIterator),                *)
(*   - the update wrapper (UpdateWrapper) and the students table the       *)
(*     statements of the integration test run against.                     *)
(* Values are serialised with serde_json; a JSON text is modelled as the   *)
(* sequence of its tokens.                                                 *)
(***************************************************************************)
EXTENDS Integers, Sequences, FiniteSets, TLC

VARIABLES
    heap,       \* the allocated Rc<RefCell<HashMap<String, String>>>, by index
    handles,    \* the live HashmapCacheHandles: [map |-> index into heap, origin |-> cache]
    lastOp,     \* the last handle operation of the cache specification and its result
    everPut,    \* per allocated map, the keys some put has written (history)
    cache,      \* the cache behind the handle a statement wrapper carries
    cache0,     \* (history) the cache as it was when the statement started
    pc,         \* where the modelled program is: "setup", inside a row iterator
                \* ("populating", "lookup", "chain"), "returned", "panicked"
    inner,      \* the items the inner row iterator yields, in order
    ipos,       \* the number of items pulled from the inner row iterator
    keys,       \* the key sequence of the lookup iterator
    kpos,       \* the number of keys consumed from the key sequence
    populate,   \* ResultCacheLookupIterator.populate
    out,        \* what each call of next() returned, in order
    log,        \* the cache writes made by the iterator: [n, op, key, val, ok, dropped]
    db,         \* the students table: the name of each id
    stmt,       \* the statement the application ran last
    trace,      \* what the last statement did on the connection and, for an
                \* update wrapper, on the cache, in order
    invalidated, \* (history) the keys a successful update wrapper deleted, no
                \* statement that writes the cache having run since
    arrived,    \* (history) the calls of the cache handles of all clients, in the
                \* order in which the Redis server served them
    procs       \* the position and the locals of each of the concurrent chains

vars == <<heap, handles, lastOp, everPut, cache, cache0, pc, inner, ipos, keys, kpos, populate,
          out, log, db, stmt, trace, invalidated, arrived, procs>>

cacheVars == <<heap, handles, lastOp, everPut>>
iterVars == <<cache, cache0, pc, inner, ipos, keys, kpos, populate, out, log>>
dbVars == <<db, stmt, trace, invalidated>>
netVars == <<arrived, procs>>

-----------------------------------------------------------------------------
(* Bounds of the model. *)

\* the most handles of the cache specification
MaxHandles == 2
\* the most items of an inner row iterator
MaxItems == 2
\* the longest key sequence of a lookup
MaxKeys == 2
\* the latest reading of the wall clock, in nanoseconds since the epoch
MaxClock == 1
\* the nanoseconds of one second, scaled down
NanosPerSec == 2
\* the calls the clients of one Redis server make in a run
MaxCalls == 3
\* the last clock reading of the clients of one Redis server
MaxTime == 2
\* the largest argument of wait_until_online (the tests pass 6)
MaxRetries == 6

-----------------------------------------------------------------------------
(* Values: Option, Result, rows. *)

None == [type |-> "None"]
Some(x) == [type |-> "Some", val |-> x]
Ok(x) == [ok |-> TRUE, val |-> x]
Err(e) == [ok |-> FALSE, err |-> e]
\* a call that does not return: .expect(..) on an Err, panic!(..)
Panic(msg) == [ok |-> FALSE, panic |-> msg]
IsPanic(r) == "panic" \in DOMAIN r
IsErr(r) == "err" \in DOMAIN r

\* the unit value of Ok(())
Unit == [type |-> "Unit"]

\* models.rs: struct Student { id, name, dob }
Student(i, n) == [type |-> "Student", id |-> i, name |-> n]
\* a String value, as the cache tests put
StringValue(s) == [type |-> "String", s |-> s]

Rows == {Student(1, "John"), Student(2, "Ori")}
Values == Rows \cup {StringValue("test_value")}
ValueTypes == {"Student", "String"}
CacheKeys == {"student:1", "student:2"}

\* sql::<Text>("'student:' || id"): the cache key of a student row
KeyOf(row) == "student:" \o ToString(row.id)

\* the database error an inner iterator may yield
DbErrors == {"DatabaseError"}

-----------------------------------------------------------------------------
(* serde_json, on token sequences. *)

Digits == 0..9

\* serde_json::to_string(value)
to_string_drops_field(v) ==
    IF v.type = "Student"
    THEN <<"{", "id", ToString(v.id), "}">>
    ELSE <<"\"", v.s, "\"">>

to_string(v) ==
    IF v.type = "Student"
    THEN <<"{", "id", ToString(v.id), "name", "\"", v.name, "\"", "}">>
    ELSE <<"\"", v.s, "\"">>

IsNumber(tok) == \E d \in Digits : ToString(d) = tok
ParseNumber(tok) == CHOOSE d \in Digits : ToString(d) = tok

\* serde_json::from_str::<V>(text): Ok(value) or Err(parse error)
from_str(V, text) ==
    IF V = "Student"
    THEN IF /\ Len(text) = 8
            /\ text[1] = "{" /\ text[2] = "id" /\ IsNumber(text[3])
            /\ text[4] = "name" /\ text[5] = "\"" /\ text[7] = "\"" /\ text[8] = "}"
         THEN Ok(Student(ParseNumber(text[3]), text[6]))
         ELSE Err("Failed to deserialize value")
    ELSE IF Len(text) = 3 /\ text[1] = "\"" /\ text[3] = "\""
         THEN Ok(StringValue(text[2]))
         ELSE Err("Failed to deserialize value")

-----------------------------------------------------------------------------
(* HashMap<String, String>: a function on the keys present. *)

EmptyMap == [k \in {} |-> <<>>]

HashMapInsert(m, key, text) ==
    [k \in DOMAIN m \cup {key} |-> IF k = key THEN text ELSE m[k]]

HashMapRemove(m, key) == [k \in DOMAIN m \ {key} |-> m[k]]

\* HashmapCacheHandle::get on the map the handle points to
HashmapGet(m, key, V) ==
    IF key \in DOMAIN m
    THEN LET r == from_str(V, m[key])
         IN IF r.ok THEN Ok(Some(r.val)) ELSE Err("Failed to deserialize value")
    ELSE Ok(None)

\* HashmapCacheHandle::put: the map afterwards and the result
HashmapPut_no_insert(m, key, value) == [map |-> m, res |-> Ok(Unit)]

\* put that keeps the value a key already has
HashmapPut_keeps_first(m, key, value) ==
    [map |-> IF key \in DOMAIN m THEN m ELSE HashMapInsert(m, key, to_string(value)),
     res |-> Ok(Unit)]

HashmapPut(m, key, value) ==
    [map |-> HashMapInsert(m, key, to_string(value)), res |-> Ok(Unit)]

\* HashmapCacheHandle::delete: the map afterwards and the result
HashmapDelete_no_remove(m, key) == [map |-> m, res |-> Ok(Unit)]

HashmapDelete(m, key) == [map |-> HashMapRemove(m, key), res |-> Ok(Unit)]

\* the characters of the keys the tests use
Chars(key) ==
    IF key = "student:1" THEN <<"s", "t", "u", "d", "e", "n", "t", ":", "1">>
    ELSE IF key = "student:2" THEN <<"s", "t", "u", "d", "e", "n", "t", ":", "2">>
    ELSE <<"t", "e", "s", "t", "_", "k", "e", "y">>

\* the patterns scan_keys is called with: "student:*", "student:?", "*:2",
\* "test_*"
Patterns ==
    {<<"s", "t", "u", "d", "e", "n", "t", ":", "*">>,
     <<"s", "t", "u", "d", "e", "n", "t", ":", "?">>,
     <<"*", ":", "2">>,
     <<"t", "e", "s", "t", "_", "*">>}

\* wildmatch::WildMatch::new(pattern).matches(text): `*` stands for any run
\* of characters, `?` for exactly one
RECURSIVE WildMatch(_, _)
WildMatch(pattern, text) ==
    IF pattern = <<>> THEN text = <<>>
    ELSE IF Head(pattern) = "*"
    THEN \/ WildMatch(Tail(pattern), text)
         \/ text # <<>> /\ WildMatch(pattern, Tail(text))
    ELSE /\ text # <<>>
         /\ Head(pattern) = "?" \/ Head(pattern) = Head(text)
         /\ WildMatch(Tail(pattern), Tail(text))

\* scan_keys that returns the whole store, whatever the pattern
HashmapScanKeys_unfiltered(m, pattern) == Ok(m)

\* HashmapCacheHandle::scan_keys: the entries whose key matches, as stored
HashmapScanKeys(m, pattern) ==
    Ok([k \in {x \in DOMAIN m : WildMatch(pattern, Chars(x))} |-> m[k]])

-----------------------------------------------------------------------------
(* The Redis server functions td_get, td_set, td_invalidate                *)
(* (lua/functions.lua).  The server keeps, per key, the value bytes and    *)
(* the tombstone timestamp of the last invalidation:                       *)
(* srv = [vals |-> .., tomb |-> ..], both functions on the keys present.   *)
(* The timestamp written beside a value is read by none of the three       *)
(* functions and is left out of the server state.                          *)

\* SystemTime::now().duration_since(UNIX_EPOCH): as_secs() and subsec_nanos()
Timestamp(n) == [sec |-> n \div NanosPerSec, nsec |-> n % NanosPerSec]

\* (sec, nsec) pairs in their order
TsGeq(a, b) == a.sec > b.sec \/ (a.sec = b.sec /\ a.nsec >= b.nsec)

EmptyServer == [vals |-> EmptyMap, tomb |-> EmptyMap]

\* td_get(KEYS[1]): the value bytes, or nil
td_get(srv, key) ==
    IF key \in DOMAIN srv.vals THEN Some(srv.vals[key]) ELSE None

\* td_set(KEYS[1], value, ts_sec, ts_nsec): dropped when the tombstone is not older
td_set(srv, key, text, ts) ==
    IF key \in DOMAIN srv.tomb /\ TsGeq(srv.tomb[key], ts)
    THEN srv
    ELSE [srv EXCEPT !.vals = HashMapInsert(srv.vals, key, text)]

\* td_invalidate(KEYS[1], ts_sec, ts_nsec): record the tombstone, delete the value
td_invalidate(srv, key, ts) ==
    [vals |-> HashMapRemove(srv.vals, key),
     tomb |-> HashMapInsert(srv.tomb, key, ts)]

-----------------------------------------------------------------------------
(* RedisCacheHandle.  Each call meets the network: fault says where the    *)
(* call fails, if it does; now is the reading of the wall clock.           *)

Faults == {"none", "connect", "send", "recv"}

\* RedisCacheHandle::raw_get: every transport failure is an expect()
raw_get(srv, key, fault) ==
    IF fault = "connect" THEN Panic("Failed to connect to Redis")
    ELSE IF fault = "send" THEN Panic("Failed to call Redis function")
    ELSE IF fault = "recv" THEN Panic("Failed to receive response from Redis function call")
    ELSE Ok(td_get(srv, key))

\* RedisCacheHandle::get
RedisGet(srv, key, V, fault) ==
    LET raw == raw_get(srv, key, fault)
    IN IF IsPanic(raw) THEN raw
       ELSE IF raw.val = None THEN Ok(None)
       ELSE LET r == from_str(V, raw.val.val)
            IN IF r.ok THEN Ok(Some(r.val)) ELSE Err("Failed to deserialize value")

\* put with the nanoseconds of the clock reading left out of the call
put_sends_seconds_only(srv, key, value, fault, now) ==
    IF fault = "connect" THEN [srv |-> srv, res |-> Err("Failed to connect to Redis")]
    ELSE IF fault = "send"
    THEN [srv |-> srv, res |-> Err("Failed to call Redis td_set function")]
    ELSE [srv |-> td_set(srv, key, to_string(value), [Timestamp(now) EXCEPT !.nsec = 0]),
          res |-> IF fault = "recv"
                  THEN Err("Failed to receive response from Redis function call")
                  ELSE Ok(Unit)]

\* put with the seconds and the nanoseconds passed in the wrong order
put_swaps_sec_nsec(srv, key, value, fault, now) ==
    IF fault = "connect" THEN [srv |-> srv, res |-> Err("Failed to connect to Redis")]
    ELSE IF fault = "send"
    THEN [srv |-> srv, res |-> Err("Failed to call Redis td_set function")]
    ELSE [srv |-> td_set(srv, key, to_string(value),
                         [sec |-> Timestamp(now).nsec, nsec |-> Timestamp(now).sec]),
          res |-> IF fault = "recv"
                  THEN Err("Failed to receive response from Redis function call")
                  ELSE Ok(Unit)]

\* RedisCacheHandle::put: the server afterwards and the result
RedisPut(srv, key, value, fault, now) ==
    IF fault = "connect" THEN [srv |-> srv, res |-> Err("Failed to connect to Redis")]
    ELSE IF fault = "send"
    THEN [srv |-> srv, res |-> Err("Failed to call Redis td_set function")]
    ELSE [srv |-> td_set(srv, key, to_string(value), Timestamp(now)),
          res |-> IF fault = "recv"
                  THEN Err("Failed to receive response from Redis function call")
                  ELSE Ok(Unit)]

\* delete done as raw_delete does it: the key is removed, no tombstone is recorded
delete_as_raw_delete(srv, key, fault, now) ==
    IF fault = "connect" THEN [srv |-> srv, res |-> Err("Failed to connect to Redis")]
    ELSE IF fault = "send"
    THEN [srv |-> srv, res |-> Err("Failed to call Redis td_invalidate function")]
    ELSE [srv |-> [srv EXCEPT !.vals = HashMapRemove(srv.vals, key)],
          res |-> IF fault = "recv"
                  THEN Err("Failed to receive response from Redis function call")
                  ELSE Ok(Unit)]

\* RedisCacheHandle::delete: the server afterwards and the result
RedisDelete(srv, key, fault, now) ==
    IF fault = "connect" THEN [srv |-> srv, res |-> Err("Failed to connect to Redis")]
    ELSE IF fault = "send"
    THEN [srv |-> srv, res |-> Err("Failed to call Redis td_invalidate function")]
    ELSE [srv |-> td_invalidate(srv, key, Timestamp(now)),
          res |-> IF fault = "recv"
                  THEN Err("Failed to receive response from Redis function call")
                  ELSE Ok(Unit)]

\* DEL key on the server: the value goes, the tombstone the server keeps
\* beside it stays
DEL(srv, key) == [srv EXCEPT !.vals = HashMapRemove(srv.vals, key)]

\* RedisCacheHandle::raw_delete: the connection is an expect(), the result
\* of DEL is thrown away
raw_delete(srv, key, fault) ==
    IF fault = "connect" THEN [srv |-> srv, res |-> Panic("Failed to connect to Redis")]
    ELSE IF fault = "send" THEN [srv |-> srv, res |-> Ok(Unit)]
    ELSE [srv |-> DEL(srv, key), res |-> Ok(Unit)]

-----------------------------------------------------------------------------
(* trait CacheHandle, over the two backends.  A cache is                   *)
(*   [backend |-> "hashmap", map |-> m]  or                                *)
(*   [backend |-> "redis", srv |-> server, clock |-> last clock reading].  *)
(* env = [fault |-> .., now |-> ..] is what a call meets.                  *)

NewHashmapCache == [backend |-> "hashmap", map |-> EmptyMap]
NewRedisCache == [backend |-> "redis", srv |-> EmptyServer, clock |-> 0]

QuietEnv == [fault |-> "none", now |-> 0]

\* what a call on this cache can meet; the clock of a client never goes back
Envs(c) ==
    IF c.backend = "redis"
    THEN [fault : Faults, now : c.clock..MaxClock]
    ELSE {QuietEnv}

\* what a call of next() can meet: it matters only when the call reaches cache.put
PutEnvs(c, writes) == IF writes THEN Envs(c) ELSE {QuietEnv}

\* the clock is read once the connection is there
ClockAfter(c, env) == IF env.fault = "connect" THEN c.clock ELSE env.now

\* CacheHandle::get::<V>(&key)
CacheGet(c, key, V, env) ==
    IF c.backend = "redis"
    THEN RedisGet(c.srv, key, V, env.fault)
    ELSE HashmapGet(c.map, key, V)

\* CacheHandle::put::<V>(&key, &value): the cache afterwards and the result
CachePut_skipped(c, key, value, env) == [cache |-> c, res |-> Ok(Unit)]

CachePut(c, key, value, env) ==
    IF c.backend = "redis"
    THEN LET r == RedisPut(c.srv, key, value, env.fault, env.now)
         IN [cache |-> [c EXCEPT !.srv = r.srv, !.clock = ClockAfter(c, env)],
             res |-> r.res]
    ELSE LET r == HashmapPut(c.map, key, value)
         IN [cache |-> [c EXCEPT !.map = r.map], res |-> r.res]

\* CacheHandle::delete(&key): the cache afterwards and the result
CacheDelete(c, key, env) ==
    IF c.backend = "redis"
    THEN LET r == RedisDelete(c.srv, key, env.fault, env.now)
         IN [cache |-> [c EXCEPT !.srv = r.srv, !.clock = ClockAfter(c, env)],
             res |-> r.res]
    ELSE LET r == HashmapDelete(c.map, key)
         IN [cache |-> [c EXCEPT !.map = r.map], res |-> r.res]

\* the stored text of a key, whatever the backend; None when the key has no value
StoredText(c, key) ==
    IF c.backend = "redis"
    THEN td_get(c.srv, key)
    ELSE IF key \in DOMAIN c.map THEN Some(c.map[key]) ELSE None

-----------------------------------------------------------------------------
(* The in-memory cache: HashmapCache and its handles.                      *)
(* Two caches exist after construction; each owns one reference-counted    *)
(* map.  heap[i] is the map of allocation i, a handle holds an index.      *)

\* HashmapCache::new(), twice
InitHeap == <<EmptyMap, EmptyMap>>
Caches == DOMAIN InitHeap

\* HashmapCache::handle(): Rc::clone(&self.map)
HashmapCache_handle(c) == [map |-> c, origin |-> c, via |-> "handle"]

\* impl Clone for HashmapCacheHandle: Rc::clone(&self.map); the heap and the new handle
clone_copies_map(hp, hd) ==
    [heap |-> Append(hp, hp[hd.map]),
     handle |-> [map |-> Len(hp) + 1, origin |-> hd.origin, via |-> "clone"]]

HashmapCacheHandle_clone(hp, hd) ==
    [heap |-> hp, handle |-> [map |-> hd.map, origin |-> hd.origin, via |-> "clone"]]

NoOp == [op |-> "none"]

InitCacheVars ==
    /\ heap = InitHeap
    /\ handles = <<>>
    /\ lastOp = NoOp
    /\ everPut = [i \in DOMAIN InitHeap |-> {}]

NoCache == [backend |-> "none"]

\* no statement has run
NoStmt == [kind |-> "none"]

\* the database variables are idle in the specifications that take the rows
\* of the inner query as given
IdleDb == db = <<>> /\ stmt = NoStmt /\ trace = <<>> /\ invalidated = {}

\* no concurrent clients in the specifications of one client
IdleNet == arrived = <<>> /\ procs = <<>>

\* the iterator variables are idle in the cache specification
IdleIter ==
    /\ cache = NoCache /\ cache0 = NoCache
    /\ pc = "idle"
    /\ inner = <<>> /\ ipos = 0
    /\ keys = <<>> /\ kpos = 0
    /\ populate = FALSE
    /\ out = <<>> /\ log = <<>>

InitCache == InitCacheVars /\ IdleIter /\ IdleDb /\ IdleNet

\* let h = cache.handle();
TakeHandle(c) ==
    /\ Len(handles) < MaxHandles
    /\ handles' = Append(handles, HashmapCache_handle(c))
    /\ UNCHANGED <<heap, lastOp, everPut>>
    /\ UNCHANGED <<iterVars, dbVars, netVars>>

\* let h2 = h.clone();
CloneHandle(h) ==
    /\ Len(handles) < MaxHandles
    /\ LET r == HashmapCacheHandle_clone(heap, handles[h])
       IN /\ heap' = r.heap
          /\ handles' = Append(handles, r.handle)
          /\ everPut' = [i \in DOMAIN r.heap |->
                            IF i \in DOMAIN everPut THEN everPut[i]
                            ELSE everPut[handles[h].map]]
    /\ UNCHANGED lastOp
    /\ UNCHANGED <<iterVars, dbVars, netVars>>

\* h.put(&key, &value)
HandlePut(h, key, value) ==
    LET rc == handles[h].map
        r == HashmapPut(heap[rc], key, value)
    IN /\ heap' = [heap EXCEPT ![rc] = r.map]
       /\ everPut' = [everPut EXCEPT ![rc] = @ \cup {key}]
       /\ lastOp' = [op |-> "put", h |-> h, key |-> key, val |-> value, res |-> r.res,
                     old |-> HashmapGet(heap[rc], key, value.type)]
       /\ UNCHANGED handles
       /\ UNCHANGED <<iterVars, dbVars, netVars>>

\* h.get::<V>(&key)
HandleGet(h, key, V) ==
    /\ lastOp' = [op |-> "get", h |-> h, key |-> key, type |-> V,
                  res |-> HashmapGet(heap[handles[h].map], key, V)]
    /\ UNCHANGED <<heap, handles, everPut>>
    /\ UNCHANGED <<iterVars, dbVars, netVars>>

\* h.scan_keys(pattern)
HandleScan(h, pattern) ==
    /\ lastOp' = [op |-> "scan_keys", h |-> h, pattern |-> pattern,
                  res |-> HashmapScanKeys(heap[handles[h].map], pattern)]
    /\ UNCHANGED <<heap, handles, everPut>>
    /\ UNCHANGED <<iterVars, dbVars, netVars>>

\* h.delete(&key)
HandleDelete(h, key) ==
    LET rc == handles[h].map
        r == HashmapDelete(heap[rc], key)
    IN /\ heap' = [heap EXCEPT ![rc] = r.map]
       /\ lastOp' = [op |-> "delete", h |-> h, key |-> key, res |-> r.res,
                     absent |-> key \notin DOMAIN heap[rc]]
       /\ UNCHANGED <<handles, everPut>>
       /\ UNCHANGED <<iterVars, dbVars, netVars>>

NextCache ==
    \/ \E c \in Caches : TakeHandle(c)
    \/ \E h \in DOMAIN handles : CloneHandle(h)
    \/ \E h \in DOMAIN handles, key \in CacheKeys, value \in Values : HandlePut(h, key, value)
    \/ \E h \in DOMAIN handles, key \in CacheKeys, V \in ValueTypes : HandleGet(h, key, V)
    \/ \E h \in DOMAIN handles, key \in CacheKeys : HandleDelete(h, key)
    \/ \E h \in DOMAIN handles, pattern \in Patterns : HandleScan(h, pattern)

SpecCache == InitCache /\ [][NextCache]_vars

-----------------------------------------------------------------------------
(* A statement wrapper at work: the application first uses its handle      *)
(* (pc = "setup"), then loads a wrapped select and pulls from the row      *)
(* iterator (pc = "populating" or "lookup").                               *)

\* the handle variables are idle in the statement specifications
IdleHandles ==
    /\ heap = <<>>
    /\ handles = <<>>
    /\ lastOp = NoOp
    /\ everPut = <<>>

InitStatement ==
    /\ IdleHandles
    /\ IdleDb
    /\ IdleNet
    /\ cache \in {NewHashmapCache, NewRedisCache}
    /\ cache0 = NoCache
    /\ pc = "setup"
    /\ inner = <<>> /\ ipos = 0
    /\ keys = <<>> /\ kpos = 0
    /\ populate = FALSE
    /\ out = <<>> /\ log = <<>>

\* handle.put(&key, &value) before the statement runs
SetupPut(key, value, env) ==
    /\ pc = "setup"
    /\ cache' = CachePut(cache, key, value, env).cache
    /\ UNCHANGED <<cache0, pc, inner, ipos, keys, kpos, populate, out, log>>
    /\ UNCHANGED <<cacheVars, dbVars, netVars>>

\* handle.delete(&key) before the statement runs
SetupDelete(key, env) ==
    /\ pc = "setup"
    /\ cache' = CacheDelete(cache, key, env).cache
    /\ UNCHANGED <<cache0, pc, inner, ipos, keys, kpos, populate, out, log>>
    /\ UNCHANGED <<cacheVars, dbVars, netVars>>

Setup ==
    \/ \E key \in CacheKeys, value \in Values, env \in Envs(cache) : SetupPut(key, value, env)
    \/ \E key \in CacheKeys, env \in Envs(cache) : SetupDelete(key, env)

\* the sequences over S of length at most n
SeqsUpTo(S, n) == UNION {[1..m -> S] : m \in 0..n}

\* the next item of the inner row iterator: Some(item), or None when it has run out
InnerNext == IF ipos < Len(inner) THEN Some(inner[ipos + 1]) ELSE None

\* one more call of next() makes sense: the last one did not find the sources exhausted
MayPull == IF out = <<>> \/ kpos < Len(keys) THEN TRUE ELSE out[Len(out)] # None

\* (history) the server drops a td_set of this key at this clock reading
Tombstoned(c, key, env) ==
    /\ c.backend = "redis"
    /\ key \in DOMAIN c.srv.tomb
    /\ TsGeq(c.srv.tomb[key], Timestamp(env.now))

\* (history) one cache.put of the iterator, as logged
LogEntry(c, key, value, env, res) ==
    [n |-> Len(out) + 1, op |-> "put", key |-> key, val |-> value, ok |-> res.ok,
     dropped |-> Tombstoned(c, key, env)]

-----------------------------------------------------------------------------
(* populate_cache: SelectCachingWrapper and ResultCachingIterator.         *)

\* what the inner select of populate_cache yields: QueryResult<(U, String)>
PairItems == {Ok(<<r, k>>) : r \in Rows, k \in CacheKeys} \cup {Err(e) : e \in DbErrors}

\* SelectCachingWrapper::internal_load
LoadPopulate(items) ==
    /\ pc = "setup"
    /\ pc' = "populating"
    /\ inner' = items
    /\ cache0' = cache
    /\ UNCHANGED <<cache, ipos, keys, kpos, populate, out, log>>
    /\ UNCHANGED <<cacheVars, dbVars, netVars>>

\* ResultCachingIterator::next: the cache and the log afterwards, and what is returned
next_ends_on_error(c, item, env) ==
    IF item # None /\ item.val.ok
    THEN LET it == item.val.val
             r == CachePut(c, it[2], it[1], env)
         IN [cache |-> r.cache,
             log |-> Append(log, LogEntry(c, it[2], it[1], env, r.res)),
             ret |-> Some(Ok(it[1]))]
    ELSE [cache |-> c, log |-> log, ret |-> None]

next_propagates_put_error(c, item, env) ==
    IF item # None /\ item.val.ok
    THEN LET it == item.val.val
             r == CachePut(c, it[2], it[1], env)
         IN [cache |-> r.cache,
             log |-> Append(log, LogEntry(c, it[2], it[1], env, r.res)),
             ret |-> IF r.res.ok THEN Some(Ok(it[1])) ELSE Some(Err("CacheError"))]
    ELSE [cache |-> c, log |-> log, ret |-> item]

next_without_put(c, item, env) ==
    IF item # None /\ item.val.ok
    THEN [cache |-> c, log |-> log, ret |-> Some(Ok(item.val.val[1]))]
    ELSE [cache |-> c, log |-> log, ret |-> item]

ResultCachingIterator_next(c, item, env) ==
    IF item # None /\ item.val.ok
    THEN LET it == item.val.val
             r == CachePut(c, it[2], it[1], env)
         IN [cache |-> r.cache,
             log |-> Append(log, LogEntry(c, it[2], it[1], env, r.res)),
             ret |-> Some(Ok(it[1]))]
    ELSE [cache |-> c, log |-> log, ret |-> item]

PopulateNext(env) ==
    /\ pc = "populating"
    /\ MayPull
    /\ LET r == ResultCachingIterator_next(cache, InnerNext, env)
       IN /\ cache' = r.cache
          /\ log' = r.log
          /\ out' = Append(out, r.ret)
    /\ ipos' = IF ipos < Len(inner) THEN ipos + 1 ELSE ipos
    /\ UNCHANGED <<cache0, pc, inner, keys, kpos, populate>>
    /\ UNCHANGED <<cacheVars, dbVars, netVars>>

NextPopulate ==
    \/ Setup
    \/ \E items \in SeqsUpTo(PairItems, MaxItems) : LoadPopulate(items)
    \/ \E env \in PutEnvs(cache, InnerNext # None /\ InnerNext.val.ok) : PopulateNext(env)

SpecPopulate == InitStatement /\ [][NextPopulate]_vars

-----------------------------------------------------------------------------
(* The students table and the update wrapper.                              *)
(* db[i] is the name of the student with id i.  A statement runs at        *)
(* pc = "setup"; a select leaves a row iterator behind (pc = "lookup",     *)
(* "populating"), which the application pulls from and then drops.         *)

\* fill_students_table: the ids of the rows
Ids == {r.id : r \in Rows}

\* fill_students_table: the table after the inserts
InitDb == [i \in Ids |-> (CHOOSE r \in Rows : r.id = i).name]

\* .set(students::dsl::name.eq("Ori1")): the names the updates of the test set
NewNames == {"Ori1"}

\* the updates: update(students).set(name.eq(n)).filter(id.eq(i))
Updates == [id : Ids, name : NewNames]

\* how the database answers a statement
DbOutcomes == {"ok", "error"}

\* Student::as_select() of the row with id i
DbRow(d, i) == Student(i, d[i])

\* inner_update.execute(conn): the table afterwards and QueryResult<usize>
DbExecute(d, upd, dbres) ==
    IF dbres = "error"
    THEN [db |-> d, ret |-> Err("DatabaseError")]
    ELSE [db |-> [d EXCEPT ![upd.id] = upd.name], ret |-> Ok(1)]

\* one step of a statement, as traced
Event(ev, key, ok) == [ev |-> ev, key |-> key, ok |-> ok]

\* `for key in query.keys`: the cache afterwards, the trace, and whether every
\* delete returned Ok
RECURSIVE DeleteKeys(_, _, _, _)
DeleteKeys(c, ks, envs, tr) ==
    IF ks = <<>>
    THEN [cache |-> c, trace |-> tr, ok |-> TRUE]
    ELSE LET r == CacheDelete(c, Head(ks), Head(envs))
             tr2 == Append(tr, Event("delete", Head(ks), r.res.ok))
         IN IF r.res.ok
            THEN DeleteKeys(r.cache, Tail(ks), Tail(envs), tr2)
            ELSE [cache |-> r.cache, trace |-> tr2, ok |-> FALSE]


\* execute with the inner update run although a deletion failed
execute_ignores_delete_failure(c, d, ks, upd, envs, dbres) ==
    LET del == DeleteKeys(c, ks, envs, <<>>)
        r == DbExecute(d, upd, dbres)
    IN [cache |-> del.cache, db |-> r.db,
        trace |-> Append(del.trace, Event("execute", "", r.ret.ok)),
        ret |-> r.ret]

\* execute with the inner update run first and the keys deleted after it
execute_updates_first(c, d, ks, upd, envs, dbres) ==
    LET r == DbExecute(d, upd, dbres)
        del == DeleteKeys(c, ks, envs, <<Event("execute", "", r.ret.ok)>>)
    IN [cache |-> del.cache, db |-> r.db, trace |-> del.trace,
        ret |-> IF del.ok THEN r.ret ELSE Err("RollbackTransaction")]

\* execute with the cache put back as it was when the inner update failed
execute_restores_keys(c, d, ks, upd, envs, dbres) ==
    LET del == DeleteKeys(c, ks, envs, <<>>)
    IN IF ~del.ok
       THEN [cache |-> del.cache, db |-> d, trace |-> del.trace,
             ret |-> Err("RollbackTransaction")]
       ELSE LET r == DbExecute(d, upd, dbres)
            IN [cache |-> IF r.ret.ok THEN del.cache ELSE c,
                db |-> r.db,
                trace |-> Append(del.trace, Event("execute", "", r.ret.ok)),
                ret |-> r.ret]

\* execute with the inner update run and no key deleted
execute_skips_deletes(c, d, ks, upd, envs, dbres) ==
    LET r == DbExecute(d, upd, dbres)
    IN [cache |-> c, db |-> r.db, trace |-> <<Event("execute", "", r.ret.ok)>>,
        ret |-> r.ret]

\* execute that puts the cache back as it was when a deletion failed
execute_rolls_back_cache(c, d, ks, upd, envs, dbres) ==
    LET del == DeleteKeys(c, ks, envs, <<>>)
    IN IF ~del.ok
       THEN [cache |-> c, db |-> d, trace |-> del.trace,
             ret |-> Err("RollbackTransaction")]
       ELSE LET r == DbExecute(d, upd, dbres)
            IN [cache |-> del.cache, db |-> r.db,
                trace |-> Append(del.trace, Event("execute", "", r.ret.ok)),
                ret |-> r.ret]

\* UpdateWrapper::execute: the cache, the table, the trace and the result
UpdateWrapper_execute(c, d, ks, upd, envs, dbres) ==
    LET del == DeleteKeys(c, ks, envs, <<>>)
    IN IF ~del.ok
       THEN [cache |-> del.cache, db |-> d, trace |-> del.trace,
             ret |-> Err("RollbackTransaction")]
       ELSE LET r == DbExecute(d, upd, dbres)
            IN [cache |-> del.cache, db |-> r.db,
                trace |-> Append(del.trace, Event("execute", "", r.ret.ok)),
                ret |-> r.ret]

\* what n deletes in a row can meet from clock reading `from` on: the clock
\* never goes back, and no delete is attempted after the first failure (the
\* entries after it repeat it and are never read)
RECURSIVE EnvSeqs(_, _)
EnvSeqs(n, from) ==
    IF n = 0 THEN {<<>>}
    ELSE UNION {{<<e>> \o rest :
                    rest \in IF e.fault = "none" THEN EnvSeqs(n - 1, e.now)
                             ELSE {[j \in 1..(n - 1) |-> e]}} :
                e \in [fault : Faults, now : from..MaxClock]}

\* what the deletes of one execute can meet
DeleteEnvs(c, n) ==
    IF c.backend = "redis" THEN EnvSeqs(n, c.clock) ELSE {[j \in 1..n |-> QuietEnv]}

\* the database outcomes an execute can meet: none when a delete failed
ExecuteOutcomes(envs) ==
    IF \E i \in DOMAIN envs : envs[i].fault # "none" THEN {"ok"} ELSE DbOutcomes

\* the set of the keys of a key sequence
KeySet(ks) == {ks[i] : i \in DOMAIN ks}

\* update(..).invalidate_key(h, k).execute(conn) and
\* update(..).invalidate_keys(h, ks).execute(conn)
InvalidateExecute(ks, upd, envs, dbres) ==
    /\ pc = "setup"
    /\ LET r == UpdateWrapper_execute(cache, db, ks, upd, envs, dbres)
       IN /\ cache' = r.cache
          /\ db' = r.db
          /\ trace' = r.trace
          /\ stmt' = [kind |-> "invalidate", keys |-> ks, ids |-> {upd.id}, before |-> db,
                   ret |-> r.ret]
          /\ invalidated' = IF r.ret.ok THEN invalidated \cup KeySet(ks) ELSE invalidated
    /\ cache0' = cache
    /\ pc' = "returned"
    /\ UNCHANGED <<inner, ipos, keys, kpos, populate, out, log>>
    /\ UNCHANGED <<cacheVars, netVars>>

\* a plain update that also deletes the cache key of the row it changes
update_deletes_key(upd, dbres) ==
    /\ pc = "setup"
    /\ LET r == DbExecute(db, upd, dbres)
       IN /\ db' = r.db
          /\ trace' = <<Event("execute", "", r.ret.ok)>>
          /\ stmt' = [kind |-> "update", keys |-> <<>>, ids |-> {upd.id}, before |-> db,
                   ret |-> r.ret]
    /\ cache' = CacheDelete(cache, KeyOf(DbRow(db, upd.id)), QuietEnv).cache
    /\ cache0' = cache
    /\ pc' = "returned"
    /\ UNCHANGED <<inner, ipos, keys, kpos, populate, out, log, invalidated>>
    /\ UNCHANGED <<cacheVars, netVars>>

\* update(..).execute(conn), without the wrapper
DirectUpdate(upd, dbres) ==
    /\ pc = "setup"
    /\ LET r == DbExecute(db, upd, dbres)
       IN /\ db' = r.db
          /\ trace' = <<Event("execute", "", r.ret.ok)>>
          /\ stmt' = [kind |-> "update", keys |-> <<>>, ids |-> {upd.id}, before |-> db,
                   ret |-> r.ret]
    /\ cache0' = cache
    /\ pc' = "returned"
    /\ UNCHANGED <<cache, inner, ipos, keys, kpos, populate, out, log, invalidated>>
    /\ UNCHANGED <<cacheVars, netVars>>

-----------------------------------------------------------------------------
(* try_from_cache, try_from_cache_multi, try_from_cache_and_populate:      *)
(* SelectCacheReadWrapper and ResultCacheLookupIterator.                   *)

\* what the inner select of a lookup yields: QueryResult<U>
RowItems == {Ok(r) : r \in Rows} \cup {Err(e) : e \in DbErrors}

\* SelectCacheReadWrapper::new(inner_select, keys, cache, populate), then
\* SelectCacheReadWrapper::internal_load: ResultCacheLookupIterator::new
LoadLookup(items, ks, pop) ==
    /\ pc = "setup"
    /\ pc' = "lookup"
    /\ inner' = items
    /\ keys' = ks
    /\ populate' = pop
    /\ cache0' = cache
    /\ UNCHANGED <<cache, ipos, kpos, out, log>>
    /\ UNCHANGED <<cacheVars, dbVars, netVars>>

\* select.try_from_cache(handle, key).load_iter(conn)
TryFromCache(items, key) == LoadLookup(items, <<key>>, FALSE)

\* select.try_from_cache_and_populate(handle, key).load_iter(conn)
TryFromCacheAndPopulate(items, key) == LoadLookup(items, <<key>>, TRUE)

\* select.try_from_cache_multi(handle, keys).load_iter(conn)
TryFromCacheMulti(items, ks) == LoadLookup(items, ks, FALSE)

\* how a cache lookup ended
Outcome(res) ==
    IF IsPanic(res) THEN "panic"
    ELSE IF ~res.ok THEN "error"
    ELSE IF res.val = None THEN "miss" ELSE "hit"

\* (history) the cache lookup of this call of next()
GetEntry(key, res) ==
    [n |-> Len(out) + 1, op |-> "get", key |-> key, val |-> Outcome(res), ok |-> res.ok,
     dropped |-> FALSE]

\* call_inner_and_cache that never writes the row it returns
call_inner_without_cache(c, lg, item, pop, key, env) ==
    [cache |-> c, log |-> lg, ret |-> item]

\* call_inner_and_cache that gives up the row when the put fails
call_inner_put_error_ends(c, lg, item, pop, key, env) ==
    IF item # None /\ item.val.ok
    THEN IF pop
         THEN LET r == CachePut(c, key, item.val.val, env)
              IN [cache |-> r.cache,
                  log |-> Append(lg, LogEntry(c, key, item.val.val, env, r.res)),
                  ret |-> IF r.res.ok THEN item ELSE None]
         ELSE [cache |-> c, log |-> lg, ret |-> item]
    ELSE [cache |-> c, log |-> lg, ret |-> item]

\* call_inner_and_cache that writes the row whatever populate says
call_inner_always_caches(c, lg, item, pop, key, env) ==
    IF item # None /\ item.val.ok
    THEN LET r == CachePut(c, key, item.val.val, env)
         IN [cache |-> r.cache,
             log |-> Append(lg, LogEntry(c, key, item.val.val, env, r.res)),
             ret |-> item]
    ELSE [cache |-> c, log |-> lg, ret |-> item]

\* call_inner_and_cache that hands a failure of the put to the consumer
call_inner_put_error_as_item(c, lg, item, pop, key, env) ==
    IF item # None /\ item.val.ok
    THEN IF pop
         THEN LET r == CachePut(c, key, item.val.val, env)
              IN [cache |-> r.cache,
                  log |-> Append(lg, LogEntry(c, key, item.val.val, env, r.res)),
                  ret |-> IF r.res.ok THEN item ELSE Some(Err("CacheError"))]
         ELSE [cache |-> c, log |-> lg, ret |-> item]
    ELSE [cache |-> c, log |-> lg, ret |-> item]

\* ResultCacheLookupIterator::call_inner_and_cache: the cache, the log, the result
call_inner_and_cache(c, lg, item, pop, key, env) ==
    IF item # None /\ item.val.ok
    THEN IF pop
         THEN LET r == CachePut(c, key, item.val.val, env)
              IN [cache |-> r.cache,
                  log |-> Append(lg, LogEntry(c, key, item.val.val, env, r.res)),
                  ret |-> item]
         ELSE [cache |-> c, log |-> lg, ret |-> item]
    ELSE [cache |-> c, log |-> lg, ret |-> item]

\* next() that advances the inner iterator on a hit as well
next_pulls_on_hit(c, key, item, pop, fault, env) ==
    LET got == CacheGet(c, key, "Student", [fault |-> fault, now |-> 0])
        lg == Append(log, GetEntry(key, got))
    IN IF IsPanic(got)
       THEN [cache |-> c, log |-> lg, ret |-> got, pulled |-> FALSE]
       ELSE IF got.ok /\ got.val # None
       THEN [cache |-> c, log |-> lg, ret |-> Some(Ok(got.val.val)), pulled |-> TRUE]
       ELSE LET r == call_inner_and_cache(c, lg, item, pop, key, env)
            IN [cache |-> r.cache, log |-> r.log,
                ret |-> IF got.ok THEN r.ret ELSE None,
                pulled |-> TRUE]

\* next() that ends the stream when the inner iterator yields an error
next_ends_on_inner_error(c, key, item, pop, fault, env) ==
    LET got == CacheGet(c, key, "Student", [fault |-> fault, now |-> 0])
        lg == Append(log, GetEntry(key, got))
    IN IF IsPanic(got)
       THEN [cache |-> c, log |-> lg, ret |-> got, pulled |-> FALSE]
       ELSE IF got.ok /\ got.val # None
       THEN [cache |-> c, log |-> lg, ret |-> Some(Ok(got.val.val)), pulled |-> FALSE]
       ELSE LET r == call_inner_and_cache(c, lg, item, pop, key, env)
            IN [cache |-> r.cache, log |-> r.log,
                ret |-> IF got.ok /\ r.ret # None /\ r.ret.val.ok THEN r.ret ELSE None,
                pulled |-> TRUE]

\* next() that leaves the inner iterator alone when the cache lookup fails
next_keeps_inner_on_error(c, key, item, pop, fault, env) ==
    LET got == CacheGet(c, key, "Student", [fault |-> fault, now |-> 0])
        lg == Append(log, GetEntry(key, got))
    IN IF IsPanic(got)
       THEN [cache |-> c, log |-> lg, ret |-> got, pulled |-> FALSE]
       ELSE IF got.ok /\ got.val # None
       THEN [cache |-> c, log |-> lg, ret |-> Some(Ok(got.val.val)), pulled |-> FALSE]
       ELSE IF got.ok
       THEN LET r == call_inner_and_cache(c, lg, item, pop, key, env)
            IN [cache |-> r.cache, log |-> r.log, ret |-> r.ret, pulled |-> TRUE]
       ELSE [cache |-> c, log |-> lg, ret |-> None, pulled |-> FALSE]

\* next() that unwraps the row of the inner iterator on a miss
next_unwraps_inner(c, key, item, pop, fault, env) ==
    LET got == CacheGet(c, key, "Student", [fault |-> fault, now |-> 0])
        lg == Append(log, GetEntry(key, got))
    IN IF IsPanic(got)
       THEN [cache |-> c, log |-> lg, ret |-> got, pulled |-> FALSE]
       ELSE IF got.ok /\ got.val # None
       THEN [cache |-> c, log |-> lg, ret |-> Some(Ok(got.val.val)), pulled |-> FALSE]
       ELSE IF got.ok /\ item = None
       THEN [cache |-> c, log |-> lg, ret |-> Panic("unwrap on None"),
             pulled |-> TRUE]
       ELSE LET r == call_inner_and_cache(c, lg, item, pop, key, env)
            IN [cache |-> r.cache, log |-> r.log,
                ret |-> IF got.ok THEN r.ret ELSE None,
                pulled |-> TRUE]

\* next() that hands a failed cache lookup to the consumer as an element
next_surfaces_cache_error(c, key, item, pop, fault, env) ==
    LET got == CacheGet(c, key, "Student", [fault |-> fault, now |-> 0])
        lg == Append(log, GetEntry(key, got))
    IN IF IsPanic(got)
       THEN [cache |-> c, log |-> lg, ret |-> got, pulled |-> FALSE]
       ELSE IF got.ok /\ got.val # None
       THEN [cache |-> c, log |-> lg, ret |-> Some(Ok(got.val.val)), pulled |-> FALSE]
       ELSE LET r == call_inner_and_cache(c, lg, item, pop, key, env)
            IN [cache |-> r.cache, log |-> r.log,
                ret |-> IF got.ok THEN r.ret ELSE Some(Err("CacheError")),
                pulled |-> TRUE]

\* next() that answers a failed cache lookup like a miss
next_yields_row_on_error(c, key, item, pop, fault, env) ==
    LET got == CacheGet(c, key, "Student", [fault |-> fault, now |-> 0])
        lg == Append(log, GetEntry(key, got))
    IN IF IsPanic(got)
       THEN [cache |-> c, log |-> lg, ret |-> got, pulled |-> FALSE]
       ELSE IF got.ok /\ got.val # None
       THEN [cache |-> c, log |-> lg, ret |-> Some(Ok(got.val.val)), pulled |-> FALSE]
       ELSE LET r == call_inner_and_cache(c, lg, item, pop, key, env)
            IN [cache |-> r.cache, log |-> r.log, ret |-> r.ret, pulled |-> TRUE]

\* ResultCacheLookupIterator::next, a key being left: the cache, the log, the
\* result, and whether the inner iterator was pulled
ResultCacheLookupIterator_next(c, key, item, pop, fault, env) ==
    LET got == CacheGet(c, key, "Student", [fault |-> fault, now |-> 0])
        lg == Append(log, GetEntry(key, got))
    IN IF IsPanic(got)
       THEN [cache |-> c, log |-> lg, ret |-> got, pulled |-> FALSE]
       ELSE IF got.ok /\ got.val # None
       THEN [cache |-> c, log |-> lg, ret |-> Some(Ok(got.val.val)), pulled |-> FALSE]
       ELSE LET r == call_inner_and_cache(c, lg, item, pop, key, env)
            IN [cache |-> r.cache, log |-> r.log,
                ret |-> IF got.ok THEN r.ret ELSE None,
                pulled |-> TRUE]

\* the transport faults a get on this cache can meet
GetFaults(c) == IF c.backend = "redis" THEN Faults ELSE {"none"}

\* next() that drains a row of the inner iterator when the keys have run out
LookupEnd_pulls ==
    /\ pc = "lookup"
    /\ MayPull
    /\ kpos = Len(keys)
    /\ out' = Append(out, None)
    /\ ipos' = IF ipos < Len(inner) THEN ipos + 1 ELSE ipos
    /\ UNCHANGED <<cache, cache0, pc, inner, keys, kpos, populate, log>>
    /\ UNCHANGED <<cacheVars, dbVars, netVars>>

\* next() when the key sequence is exhausted: let key = self.keys.next()?;
LookupEnd ==
    /\ pc = "lookup"
    /\ MayPull
    /\ kpos = Len(keys)
    /\ out' = Append(out, None)
    /\ UNCHANGED <<cache, cache0, pc, inner, ipos, keys, kpos, populate, log>>
    /\ UNCHANGED <<cacheVars, dbVars, netVars>>

\* whether this call of next() reaches cache.put: only then does the put's env matter
LookupWrites(c, key, item, pop, fault) ==
    LET got == CacheGet(c, key, "Student", [fault |-> fault, now |-> 0])
    IN /\ pop
       /\ item # None /\ item.val.ok
       /\ ~IsPanic(got)
       /\ ~(got.ok /\ got.val # None)

\* next() with a key left
LookupNext(fault, env) ==
    /\ pc = "lookup"
    /\ kpos < Len(keys)
    /\ LET r == ResultCacheLookupIterator_next(cache, keys[kpos + 1], InnerNext,
                                                populate, fault, env)
       IN /\ cache' = r.cache
          /\ log' = r.log
          /\ IF IsPanic(r.ret)
             THEN pc' = "panicked" /\ out' = out
             ELSE pc' = pc /\ out' = Append(out, r.ret)
          /\ ipos' = IF r.pulled /\ ipos < Len(inner) THEN ipos + 1 ELSE ipos
    /\ kpos' = kpos + 1
    /\ UNCHANGED <<cache0, inner, keys, populate>>
    /\ UNCHANGED <<cacheVars, dbVars, netVars>>

NextLookup ==
    \/ Setup
    \/ \E items \in SeqsUpTo(RowItems, MaxItems), key \in CacheKeys :
          TryFromCache(items, key)
    \/ \E items \in SeqsUpTo(RowItems, MaxItems), key \in CacheKeys :
          TryFromCacheAndPopulate(items, key)
    \/ \E items \in SeqsUpTo(RowItems, MaxItems), ks \in SeqsUpTo(CacheKeys, MaxKeys) :
          TryFromCacheMulti(items, ks)
    \/ \E fault \in GetFaults(cache) :
          \E env \in PutEnvs(cache, pc = "lookup" /\ kpos < Len(keys) /\
                       LookupWrites(cache, keys[kpos + 1], InnerNext, populate, fault)) :
              LookupNext(fault, env)
    \/ LookupEnd

SpecLookup == InitStatement /\ [][NextLookup]_vars

\* the row streams of both wrappers: a populate_cache, a try_from_cache or a
\* try_from_cache_and_populate statement is loaded and pulled from
NextStreams ==
    \/ Setup
    \/ \E items \in SeqsUpTo(PairItems, MaxItems) : LoadPopulate(items)
    \/ \E env \in PutEnvs(cache, pc = "populating" /\ InnerNext # None /\ InnerNext.val.ok) :
          PopulateNext(env)
    \/ \E items \in SeqsUpTo(RowItems, MaxItems), key \in CacheKeys :
          TryFromCache(items, key)
    \/ \E items \in SeqsUpTo(RowItems, MaxItems), key \in CacheKeys :
          TryFromCacheAndPopulate(items, key)
    \/ \E fault \in GetFaults(cache) :
          \E env \in PutEnvs(cache, pc = "lookup" /\ kpos < Len(keys) /\
                       LookupWrites(cache, keys[kpos + 1], InnerNext, populate, fault)) :
              LookupNext(fault, env)
    \/ LookupEnd

SpecStreams == InitStatement /\ [][NextStreams]_vars

-----------------------------------------------------------------------------
\* The statements of an application over the students table: selects whose
\* inner iterator yields what the database holds when the statement is loaded

\* the orders in which the database may return the rows with the ids in S
Orders(S) ==
    {f \in [1..Cardinality(S) -> S] : \A a \in DOMAIN f : \A b \in DOMAIN f : f[a] = f[b] => a = b}

\* students.filter(id.eq_any(S)).select(Student::as_select()): the rows a load yields
SelectRows(d, S) == {[j \in DOMAIN f |-> Ok(DbRow(d, f[j]))] : f \in Orders(S)}

\* students.filter(id.eq_any(S)).select((Student::as_select(), sql("'student:' || id")))
SelectPairs(d, S) ==
    {[j \in DOMAIN f |-> Ok(<<DbRow(d, f[j]), KeyOf(DbRow(d, f[j]))>>)] : f \in Orders(S)}

\* the filters of the selects: the non-empty sets of ids
Filters == (SUBSET Ids) \ {{}}

\* the keys of the rows with the ids in S
KeysOf(S) == {KeyOf(Student(i, "")) : i \in S}

\* internal_load that answers a failed query with a row iterator without rows
load_hides_error(kind, S, items, ks, pop, next, written, dbres) ==
    /\ pc = "setup"
    /\ trace' = <<Event("query", "", dbres = "ok")>>
    /\ cache0' = cache
    /\ pc' = next
    /\ inner' = IF dbres = "ok" THEN items ELSE <<>>
    /\ keys' = ks
    /\ populate' = pop
    /\ stmt' = [kind |-> kind, keys |-> ks, ids |-> S, before |-> db, ret |-> Ok(Unit)]
    /\ invalidated' = invalidated \ written
    /\ UNCHANGED <<cache, ipos, kpos, out, log, db>>
    /\ UNCHANGED <<cacheVars, netVars>>

\* internal_load of a select wrapper: inner_select.internal_load(conn)? runs the
\* query, and only when it succeeded the row iterator is built around what it
\* yields; when it failed the load returns the error and there is no iterator
SystemLoad(kind, S, items, ks, pop, next, written, dbres) ==
    /\ pc = "setup"
    /\ trace' = <<Event("query", "", dbres = "ok")>>
    /\ cache0' = cache
    /\ IF dbres = "ok"
       THEN /\ pc' = next
            /\ inner' = items
            /\ keys' = ks
            /\ populate' = pop
            /\ stmt' = [kind |-> kind, keys |-> ks, ids |-> S, before |-> db,
                        ret |-> Ok(Unit)]
            /\ invalidated' = invalidated \ written
       ELSE /\ stmt' = [kind |-> kind, keys |-> ks, ids |-> {}, before |-> db,
                        ret |-> Err("DatabaseError")]
            /\ pc' = "returned"
            /\ UNCHANGED <<inner, keys, populate, invalidated>>
    /\ UNCHANGED <<cache, ipos, kpos, out, log, db>>
    /\ UNCHANGED <<cacheVars, netVars>>

\* the select wrappers whose execute() only hands the inner select on
ExecuteKinds == {"populate_cache.execute", "try_from_cache.execute"}

\* ExecuteDsl::execute of SelectCachingWrapper and of SelectCacheReadWrapper:
\* ExecuteDsl::execute(query.inner_select, conn), the number of rows or the error
SelectExecute(kind, S, dbres) ==
    /\ pc = "setup"
    /\ trace' = <<Event("execute", "", dbres = "ok")>>
    /\ cache0' = cache
    /\ stmt' = [kind |-> kind, keys |-> <<>>, ids |-> S, before |-> db,
                ret |-> IF dbres = "ok" THEN Ok(Cardinality(S)) ELSE Err("DatabaseError")]
    /\ pc' = "returned"
    /\ UNCHANGED <<cache, inner, ipos, keys, kpos, populate, out, log, db, invalidated>>
    /\ UNCHANGED <<cacheVars, netVars>>

\* select(row_with_cache_key).filter(..).populate_cache(h).load_iter(conn)
SelectPopulate(S, items, dbres) ==
    SystemLoad("populate_cache", S, items, <<>>, FALSE, "populating", KeysOf(S), dbres)

\* select(..).filter(id.eq(i)).try_from_cache(h, "student:i").load_iter(conn)
SelectTryFromCache(S, items, key, dbres) ==
    SystemLoad("try_from_cache", S, items, <<key>>, FALSE, "lookup", {}, dbres)

\* select(..).filter(id.eq(i)).try_from_cache_and_populate(h, "student:i").load_iter(conn)
SelectTryFromCacheAndPopulate(S, items, key, dbres) ==
    SystemLoad("try_from_cache_and_populate", S, items, <<key>>, TRUE, "lookup", {key}, dbres)

\* select(..).filter(..).try_from_cache_multi(h, keys).load_iter(conn)
SelectTryFromCacheMulti(S, items, ks, dbres) ==
    SystemLoad("try_from_cache_multi", S, items, ks, FALSE, "lookup", {}, dbres)

\* select(row_with_cache_key).filter(..).populate_cache(h).try_from_cache(h, key).load_iter(conn)
SelectChain(S, items, key, dbres) ==
    SystemLoad("populate_cache.try_from_cache", S, items, <<key>>, FALSE, "chain",
               KeysOf(S), dbres)

\* next() of the lookup iterator whose inner iterator is the populating
\* iterator: self.inner.next() is ResultCachingIterator::next
ChainNext(fault, env) ==
    /\ pc = "chain"
    /\ kpos < Len(keys)
    /\ LET below == ResultCachingIterator_next(cache, InnerNext, env)
           r == ResultCacheLookupIterator_next(cache, keys[kpos + 1], below.ret,
                                               FALSE, fault, env)
       IN /\ cache' = IF r.pulled THEN below.cache ELSE cache
          /\ log' = IF r.pulled
                    THEN r.log \o SubSeq(below.log, Len(log) + 1, Len(below.log))
                    ELSE r.log
          /\ IF IsPanic(r.ret)
             THEN pc' = "panicked" /\ out' = out
             ELSE pc' = pc /\ out' = Append(out, r.ret)
          /\ ipos' = IF r.pulled /\ ipos < Len(inner) THEN ipos + 1 ELSE ipos
    /\ kpos' = kpos + 1
    /\ UNCHANGED <<cache0, inner, keys, populate>>
    /\ UNCHANGED <<cacheVars, dbVars, netVars>>

\* next() of the chain when the key sequence is exhausted
ChainEnd ==
    /\ pc = "chain"
    /\ MayPull
    /\ kpos = Len(keys)
    /\ out' = Append(out, None)
    /\ UNCHANGED <<cache, cache0, pc, inner, ipos, keys, kpos, populate, log>>
    /\ UNCHANGED <<cacheVars, dbVars, netVars>>

\* whether this call of next() of the chain reaches cache.put
ChainWrites(c, key, item, fault) ==
    LET got == CacheGet(c, key, "Student", [fault |-> fault, now |-> 0])
    IN /\ item # None /\ item.val.ok
       /\ ~IsPanic(got)
       /\ ~(got.ok /\ got.val # None)

\* a drop that first drains the populating iterator by one more row
Drop_drains ==
    /\ pc \in {"populating", "lookup", "chain", "returned"}
    /\ pc' = "setup"
    /\ cache0' = NoCache
    /\ inner' = <<>> /\ ipos' = 0
    /\ keys' = <<>> /\ kpos' = 0
    /\ populate' = FALSE
    /\ out' = <<>> /\ log' = <<>>
    /\ stmt' = NoStmt /\ trace' = <<>>
    /\ cache' = IF pc = "populating" /\ InnerNext # None /\ InnerNext.val.ok
                THEN ResultCachingIterator_next(cache, InnerNext, QuietEnv).cache
                ELSE cache
    /\ UNCHANGED <<db, invalidated>>
    /\ UNCHANGED <<cacheVars, netVars>>

\* the row iterator, or the result a statement returned, is dropped: the
\* statement is over and the next one can start
Drop ==
    /\ pc \in {"populating", "lookup", "chain", "returned"}
    /\ pc' = "setup"
    /\ cache0' = NoCache
    /\ inner' = <<>> /\ ipos' = 0
    /\ keys' = <<>> /\ kpos' = 0
    /\ populate' = FALSE
    /\ out' = <<>> /\ log' = <<>>
    /\ stmt' = NoStmt /\ trace' = <<>>
    /\ UNCHANGED <<cache, db, invalidated>>
    /\ UNCHANGED <<cacheVars, netVars>>

InitSystem ==
    /\ IdleHandles
    /\ cache \in {NewHashmapCache, NewRedisCache}
    /\ cache0 = NoCache
    /\ pc = "setup"
    /\ inner = <<>> /\ ipos = 0
    /\ keys = <<>> /\ kpos = 0
    /\ populate = FALSE
    /\ out = <<>> /\ log = <<>>
    /\ db = InitDb
    /\ stmt = NoStmt /\ trace = <<>> /\ invalidated = {}
    /\ IdleNet

NextSystem ==
    \/ /\ pc = "setup"
       /\ \E upd \in Updates, dbres \in DbOutcomes : DirectUpdate(upd, dbres)
    \/ /\ pc = "setup"
       /\ \E ks \in SeqsUpTo(CacheKeys, MaxKeys), upd \in Updates :
             \E envs \in DeleteEnvs(cache, Len(ks)) : \E dbres \in ExecuteOutcomes(envs) :
                 InvalidateExecute(ks, upd, envs, dbres)
    \/ /\ pc = "setup"
       /\ \E S \in Filters, dbres \in DbOutcomes : \E items \in SelectPairs(db, S) :
             SelectPopulate(S, items, dbres)
    \/ /\ pc = "setup"
       /\ \E i \in Ids, dbres \in DbOutcomes : \E items \in SelectRows(db, {i}) :
             SelectTryFromCache({i}, items, KeyOf(DbRow(db, i)), dbres)
    \/ /\ pc = "setup"
       /\ \E i \in Ids, dbres \in DbOutcomes : \E items \in SelectRows(db, {i}) :
             SelectTryFromCacheAndPopulate({i}, items, KeyOf(DbRow(db, i)), dbres)
    \/ /\ pc = "setup"
       /\ \E S \in Filters, dbres \in DbOutcomes : \E items \in SelectRows(db, S) :
             \E ks \in SeqsUpTo(CacheKeys, MaxKeys) :
                 SelectTryFromCacheMulti(S, items, ks, dbres)
    \/ /\ pc = "setup"
       /\ \E i \in Ids, dbres \in DbOutcomes : \E items \in SelectPairs(db, {i}) :
             SelectChain({i}, items, KeyOf(DbRow(db, i)), dbres)
    \/ /\ pc = "setup"
       /\ \E kind \in ExecuteKinds, S \in Filters, dbres \in DbOutcomes :
             SelectExecute(kind, S, dbres)
    \/ /\ pc = "populating"
       /\ \E env \in PutEnvs(cache, InnerNext # None /\ InnerNext.val.ok) : PopulateNext(env)
    \/ /\ pc = "lookup"
       /\ \E fault \in GetFaults(cache) :
             \E env \in PutEnvs(cache, kpos < Len(keys) /\
                          LookupWrites(cache, keys[kpos + 1], InnerNext, populate, fault)) :
                 LookupNext(fault, env)
    \/ LookupEnd
    \/ /\ pc = "chain"
       /\ \E fault \in GetFaults(cache) :
             \E env \in PutEnvs(cache, kpos < Len(keys) /\
                          ChainWrites(cache, keys[kpos + 1], InnerNext, fault)) :
                 ChainNext(fault, env)
    \/ ChainEnd
    \/ Drop

SpecSystem == InitSystem /\ [][NextSystem]_vars

-----------------------------------------------------------------------------
(* The clients of one Redis server.  In the client specification one       *)
(* client makes all the calls: its clock never goes back (cache.clock is   *)
(* its last reading) and a call can meet a transport fault.  In the server *)
(* specification several clients hold handles on the same server and read  *)
(* clocks of their own, so their calls carry any timestamp; a call is      *)
(* served at the step that models it, which fixes the order of arrival.    *)

\* what a call of the one client can meet; the clock is not read when the
\* connection fails
ClientEnvs(c) ==
    IF c.backend = "redis"
    THEN {env \in [fault : Faults, now : c.clock..MaxTime] :
             env.fault = "connect" => env.now = c.clock}
    ELSE {QuietEnv}

\* the key the one client works on
ClientKeys == {"student:1"}

\* (history) one call as the server saw it and as the caller saw its result
Call(who, op, key, value, env, ret) ==
    [who |-> who, op |-> op, key |-> key, val |-> value, ts |-> Timestamp(env.now),
     fault |-> env.fault, served |-> env.fault \in {"none", "recv"}, ret |-> ret]

InitRedis ==
    /\ IdleHandles
    /\ IdleDb
    /\ cache = NewRedisCache
    /\ cache0 = NoCache
    /\ pc = "online"
    /\ inner = <<>> /\ ipos = 0
    /\ keys = <<>> /\ kpos = 0
    /\ populate = FALSE
    /\ out = <<>> /\ log = <<>>
    /\ arrived = <<>> /\ procs = <<>>

\* the one client holds a handle of either backend
InitHandle ==
    /\ IdleHandles
    /\ IdleDb
    /\ cache \in {NewHashmapCache, NewRedisCache}
    /\ cache0 = NoCache
    /\ pc = "online"
    /\ inner = <<>> /\ ipos = 0
    /\ keys = <<>> /\ kpos = 0
    /\ populate = FALSE
    /\ out = <<>> /\ log = <<>>
    /\ arrived = <<>> /\ procs = <<>>

\* handle.put(&key, &value) of the one client
ClientPut(key, value, env) ==
    /\ pc = "online" /\ Len(arrived) < MaxCalls
    /\ LET r == CachePut(cache, key, value, env)
       IN /\ cache' = r.cache
          /\ arrived' = Append(arrived, Call("self", "put", key, value, env, r.res))
    /\ UNCHANGED <<cache0, pc, inner, ipos, keys, kpos, populate, out, log, procs>>
    /\ UNCHANGED <<cacheVars, dbVars>>

\* handle.delete(&key) of the one client
ClientDelete(key, env) ==
    /\ pc = "online" /\ Len(arrived) < MaxCalls
    /\ LET r == CacheDelete(cache, key, env)
       IN /\ cache' = r.cache
          /\ arrived' = Append(arrived, Call("self", "delete", key, Unit, env, r.res))
    /\ UNCHANGED <<cache0, pc, inner, ipos, keys, kpos, populate, out, log, procs>>
    /\ UNCHANGED <<cacheVars, dbVars>>

\* handle.get::<V>(&key) of the one client (the call records the type asked
\* for); a panic ends the client
ClientGet(key, V, fault) ==
    /\ pc = "online" /\ Len(arrived) < MaxCalls
    /\ LET env == [fault |-> fault,
                   now |-> IF cache.backend = "redis" THEN cache.clock ELSE 0]
           r == CacheGet(cache, key, V, env)
       IN /\ arrived' = Append(arrived, Call("self", "get", key, [type |-> V], env, r))
          /\ pc' = IF IsPanic(r) THEN "panicked" ELSE pc
    /\ UNCHANGED <<cache, cache0, inner, ipos, keys, kpos, populate, out, log, procs>>
    /\ UNCHANGED <<cacheVars, dbVars>>

\* handle.raw_delete(&key) of the one client; a panic ends the client
ClientRawDelete(key, fault) ==
    /\ pc = "online" /\ Len(arrived) < MaxCalls
    /\ cache.backend = "redis"
    /\ LET env == [fault |-> fault, now |-> cache.clock]
           r == raw_delete(cache.srv, key, fault)
       IN /\ cache' = [cache EXCEPT !.srv = r.srv]
          /\ arrived' = Append(arrived, Call("self", "raw_delete", key, Unit, env, r.res))
          /\ pc' = IF IsPanic(r.res) THEN "panicked" ELSE pc
    /\ UNCHANGED <<cache0, inner, ipos, keys, kpos, populate, out, log, procs>>
    /\ UNCHANGED <<cacheVars, dbVars>>

\* handle.put(&key, &value) of some client, whose clock reads now
AnyPut(key, value, now) ==
    /\ pc = "online" /\ Len(arrived) < MaxCalls
    /\ LET env == [fault |-> "none", now |-> now]
           r == RedisPut(cache.srv, key, value, env.fault, env.now)
       IN /\ cache' = [cache EXCEPT !.srv = r.srv]
          /\ arrived' = Append(arrived, Call("any", "put", key, value, env, r.res))
    /\ UNCHANGED <<cache0, pc, inner, ipos, keys, kpos, populate, out, log, procs>>
    /\ UNCHANGED <<cacheVars, dbVars>>

\* handle.delete(&key) of some client, whose clock reads now
AnyDelete(key, now) ==
    /\ pc = "online" /\ Len(arrived) < MaxCalls
    /\ LET env == [fault |-> "none", now |-> now]
           r == RedisDelete(cache.srv, key, env.fault, env.now)
       IN /\ cache' = [cache EXCEPT !.srv = r.srv]
          /\ arrived' = Append(arrived, Call("any", "delete", key, Unit, env, r.res))
    /\ UNCHANGED <<cache0, pc, inner, ipos, keys, kpos, populate, out, log, procs>>
    /\ UNCHANGED <<cacheVars, dbVars>>

\* handle.raw_delete(&key) of some client
AnyRawDelete(key) ==
    /\ pc = "online" /\ Len(arrived) < MaxCalls
    /\ LET env == [fault |-> "none", now |-> cache.clock]
           r == raw_delete(cache.srv, key, env.fault)
       IN /\ cache' = [cache EXCEPT !.srv = r.srv]
          /\ arrived' = Append(arrived, Call("any", "raw_delete", key, Unit, env, r.res))
    /\ UNCHANGED <<cache0, pc, inner, ipos, keys, kpos, populate, out, log, procs>>
    /\ UNCHANGED <<cacheVars, dbVars>>

NextClient ==
    \/ \E key \in ClientKeys, value \in Values, env \in ClientEnvs(cache) :
          ClientPut(key, value, env)
    \/ \E key \in ClientKeys, env \in ClientEnvs(cache) : ClientDelete(key, env)
    \/ \E key \in ClientKeys, V \in ValueTypes, fault \in GetFaults(cache) :
          ClientGet(key, V, fault)
    \/ \E key \in ClientKeys, fault \in Faults : ClientRawDelete(key, fault)

SpecClient == InitRedis /\ [][NextClient]_vars

SpecHandle == InitHandle /\ [][NextClient]_vars

NextRedis ==
    \/ \E key \in CacheKeys, value \in Rows, now \in 0..MaxTime : AnyPut(key, value, now)
    \/ \E key \in CacheKeys, now \in 0..MaxTime : AnyDelete(key, now)
    \/ \E key \in CacheKeys : AnyRawDelete(key)

SpecRedis == InitRedis /\ [][NextRedis]_vars

-----------------------------------------------------------------------------
(* A read chain and an update chain on the same row, step by step.         *)
(* procs.reader runs students.filter(id.eq(i)).select(..)                  *)
(* .try_from_cache_and_populate(h, k).load_iter(conn) and pulls once;      *)
(* procs.updater runs update(..).invalidate_key(h, k).execute(conn).       *)
(* A call to the database or to the in-memory cache is one step.  A put or *)
(* a delete on the Redis handle is two: the command is written with the    *)
(* clock reading of that moment, and the server serves it later, so the    *)
(* commands of the two chains reach the server in either order.  arrived   *)
(* holds the commands written and not yet served.                          *)

\* the row both chains work on, and its cache key
RaceId == 1
RaceKey == KeyOf(DbRow(InitDb, RaceId))

\* a chain before its first step
NotStarted == [pc |-> "start", row |-> None]

InitRace ==
    /\ IdleHandles
    /\ cache \in {NewHashmapCache, NewRedisCache}
    /\ cache0 = NoCache
    /\ pc = "race"
    /\ inner = <<>> /\ ipos = 0
    /\ keys = <<>> /\ kpos = 0
    /\ populate = FALSE
    /\ out = <<>> /\ log = <<>>
    /\ db = InitDb /\ stmt = NoStmt /\ trace = <<>> /\ invalidated = {}
    /\ arrived = <<>>
    /\ procs = [reader |-> NotStarted, updater |-> NotStarted]

\* an earlier statement has cached the row: handle.put(&key, &row)
RacePrefill(env) ==
    /\ pc = "race"
    /\ procs.reader.pc = "start" /\ procs.updater.pc = "start"
    /\ StoredText(cache, RaceKey) = None
    /\ cache' = CachePut(cache, RaceKey, DbRow(db, RaceId), env).cache
    /\ UNCHANGED <<cache0, pc, inner, ipos, keys, kpos, populate, out, log>>
    /\ UNCHANGED <<cacheVars, dbVars, netVars>>

\* reader, SelectCacheReadWrapper::internal_load: the select runs, the row
\* iterator holds what the table held
ReaderLoad(dbres) ==
    /\ pc = "race"
    /\ procs.reader.pc = "start"
    /\ procs' = [procs EXCEPT !.reader =
                    IF dbres = "error"
                    THEN [pc |-> "done", row |-> None]
                    ELSE [pc |-> "loaded", row |-> Some(DbRow(db, RaceId))]]
    /\ UNCHANGED <<cache, cache0, pc, inner, ipos, keys, kpos, populate, out, log, arrived>>
    /\ UNCHANGED <<cacheVars, dbVars>>

\* reader, ResultCacheLookupIterator::next: self.cache.get::<U>(&key)
ReaderGet(fault) ==
    /\ pc = "race"
    /\ procs.reader.pc = "loaded"
    /\ LET got == CacheGet(cache, RaceKey, "Student", [fault |-> fault, now |-> 0])
       IN procs' = [procs EXCEPT !.reader.pc =
                       IF IsPanic(got) THEN "panicked"
                       ELSE IF got.ok /\ got.val # None THEN "done"
                       ELSE "missed"]
    /\ UNCHANGED <<cache, cache0, pc, inner, ipos, keys, kpos, populate, out, log, arrived>>
    /\ UNCHANGED <<cacheVars, dbVars>>

\* what a call meets before its command is on the wire
WriteEnvs(c) == {env \in Envs(c) : env.fault # "recv"}

\* the call has read the clock and written its command; the server has not
\* served it yet
IsHeld(c, env) == c.backend = "redis" /\ env.fault = "none"

\* the command a chain has on the wire
Held(who) == CHOOSE m \in {arrived[i] : i \in DOMAIN arrived} : m.who = who

\* the wire without the command of a chain
Served(who) == SelectSeq(arrived, LAMBDA m : m.who # who)

\* reader, call_inner_and_cache: self.cache.put(key, it).  On the Redis
\* handle the call connects, reads the clock and writes FCALL td_set; it ends
\* here when that fails.  The in-memory put is done in this step.
ReaderPut(env) ==
    /\ pc = "race"
    /\ procs.reader.pc = "missed"
    /\ IF IsHeld(cache, env)
       THEN /\ cache' = [cache EXCEPT !.clock = env.now]
            /\ arrived' = Append(arrived, [who |-> "reader", op |-> "put", now |-> env.now])
            /\ procs' = [procs EXCEPT !.reader.pc = "putting"]
       ELSE /\ cache' = CachePut(cache, RaceKey, procs.reader.row.val, env).cache
            /\ arrived' = arrived
            /\ procs' = [procs EXCEPT !.reader.pc = "done"]
    /\ UNCHANGED <<cache0, pc, inner, ipos, keys, kpos, populate, out, log>>
    /\ UNCHANGED <<cacheVars, dbVars>>

\* reader, RedisCacheHandle::put: the server runs td_set with the timestamp
\* the command carries and the call reads the answer
ReaderPutServed(fault) ==
    /\ pc = "race"
    /\ procs.reader.pc = "putting"
    /\ cache' = [cache EXCEPT !.srv =
                    RedisPut(cache.srv, RaceKey, procs.reader.row.val, fault,
                             Held("reader").now).srv]
    /\ arrived' = Served("reader")
    /\ procs' = [procs EXCEPT !.reader.pc = "done"]
    /\ UNCHANGED <<cache0, pc, inner, ipos, keys, kpos, populate, out, log>>
    /\ UNCHANGED <<cacheVars, dbVars>>

\* updater, UpdateWrapper::execute: query.cache.clone().delete(&key).  On the
\* Redis handle the call connects, reads the clock and writes FCALL
\* td_invalidate; it ends here when that fails.  The in-memory delete is done
\* in this step.
UpdaterDelete(env) ==
    /\ pc = "race"
    /\ procs.updater.pc = "start"
    /\ IF IsHeld(cache, env)
       THEN /\ cache' = [cache EXCEPT !.clock = env.now]
            /\ arrived' = Append(arrived, [who |-> "updater", op |-> "delete", now |-> env.now])
            /\ procs' = [procs EXCEPT !.updater.pc = "deleting"]
       ELSE LET r == CacheDelete(cache, RaceKey, env)
            IN /\ cache' = r.cache
               /\ arrived' = arrived
               /\ procs' = [procs EXCEPT !.updater.pc =
                               IF r.res.ok THEN "deleted" ELSE "done"]
    /\ UNCHANGED <<cache0, pc, inner, ipos, keys, kpos, populate, out, log>>
    /\ UNCHANGED <<cacheVars, dbVars>>

\* updater, RedisCacheHandle::delete: the server runs td_invalidate with the
\* timestamp the command carries and the call reads the answer; an Err
\* ends execute with RollbackTransaction
UpdaterDeleteServed(fault) ==
    /\ pc = "race"
    /\ procs.updater.pc = "deleting"
    /\ LET r == RedisDelete(cache.srv, RaceKey, fault, Held("updater").now)
       IN /\ cache' = [cache EXCEPT !.srv = r.srv]
          /\ procs' = [procs EXCEPT !.updater.pc =
                          IF r.res.ok THEN "deleted" ELSE "done"]
    /\ arrived' = Served("updater")
    /\ UNCHANGED <<cache0, pc, inner, ipos, keys, kpos, populate, out, log>>
    /\ UNCHANGED <<cacheVars, dbVars>>

\* updater, UpdateWrapper::execute: ExecuteDsl::execute(query.inner_update, conn)
UpdaterUpdate(upd, dbres) ==
    /\ pc = "race"
    /\ procs.updater.pc = "deleted"
    /\ upd.id = RaceId
    /\ db' = DbExecute(db, upd, dbres).db
    /\ procs' = [procs EXCEPT !.updater.pc = "done"]
    /\ UNCHANGED <<stmt, trace, invalidated, arrived>>
    /\ UNCHANGED <<cache, cache0, pc, inner, ipos, keys, kpos, populate, out, log>>
    /\ UNCHANGED cacheVars

NextRace ==
    \/ \E env \in Envs(cache) : RacePrefill(env)
    \/ \E dbres \in DbOutcomes : ReaderLoad(dbres)
    \/ \E fault \in GetFaults(cache) : ReaderGet(fault)
    \/ \E env \in WriteEnvs(cache) : ReaderPut(env)
    \/ \E fault \in {"none", "recv"} : ReaderPutServed(fault)
    \/ \E env \in WriteEnvs(cache) : UpdaterDelete(env)
    \/ \E fault \in {"none", "recv"} : UpdaterDeleteServed(fault)
    \/ \E upd \in Updates, dbres \in DbOutcomes : UpdaterUpdate(upd, dbres)

SpecRace == InitRace /\ [][NextRace]_vars

-----------------------------------------------------------------------------
(* RedisCacheHandle::wait_until_online, one loop iteration at a time.      *)
(* procs.online is whether the server answers a ping right now; the rest   *)
(* of procs is the call: its argument, the loop counter, the results of    *)
(* the online checks made so far, and what it returned.                    *)

\* no call of wait_until_online has been made
NotWaiting == [w |-> "idle", retries |-> 0, i |-> 0, checks |-> <<>>, ret |-> None]

InitWait ==
    /\ IdleHandles
    /\ IdleDb
    /\ cache = NewRedisCache /\ cache0 = NoCache
    /\ pc = "wait"
    /\ inner = <<>> /\ ipos = 0
    /\ keys = <<>> /\ kpos = 0
    /\ populate = FALSE
    /\ out = <<>> /\ log = <<>>
    /\ arrived = <<>>
    /\ procs \in {NotWaiting @@ [online |-> b] : b \in BOOLEAN}

\* the server comes up or goes down
ServerToggle ==
    /\ pc = "wait"
    /\ procs' = [procs EXCEPT !.online = ~procs.online]
    /\ UNCHANGED <<cache, cache0, pc, inner, ipos, keys, kpos, populate, out, log, arrived>>
    /\ UNCHANGED <<cacheVars, dbVars>>

\* handle.wait_until_online(retries).await is called
WaitCall(retries) ==
    /\ pc = "wait"
    /\ procs.w = "idle"
    /\ procs' = [procs EXCEPT !.w = "loop", !.retries = retries]
    /\ UNCHANGED <<cache, cache0, pc, inner, ipos, keys, kpos, populate, out, log, arrived>>
    /\ UNCHANGED <<cacheVars, dbVars>>

\* an iteration that checks once more than the loop allows
WaitCheck_once_more ==
    /\ pc = "wait"
    /\ procs.w = "loop" /\ procs.i <= procs.retries
    /\ procs' = [procs EXCEPT !.checks = Append(@, procs.online),
                              !.w = IF procs.online THEN "returned" ELSE "sleeping",
                              !.ret = IF procs.online THEN Some(Ok(Unit)) ELSE None]
    /\ UNCHANGED <<cache, cache0, pc, inner, ipos, keys, kpos, populate, out, log, arrived>>
    /\ UNCHANGED <<cacheVars, dbVars>>

\* one iteration of `for _ in 0..retries`: check_online(), return Ok(()) when it is Ok
WaitCheck ==
    /\ pc = "wait"
    /\ procs.w = "loop" /\ procs.i < procs.retries
    /\ procs' = [procs EXCEPT !.checks = Append(@, procs.online),
                              !.w = IF procs.online THEN "returned" ELSE "sleeping",
                              !.ret = IF procs.online THEN Some(Ok(Unit)) ELSE None]
    /\ UNCHANGED <<cache, cache0, pc, inner, ipos, keys, kpos, populate, out, log, arrived>>
    /\ UNCHANGED <<cacheVars, dbVars>>

\* task::sleep(Duration::from_secs(1)).await is over: the next iteration
WaitSleep ==
    /\ pc = "wait"
    /\ procs.w = "sleeping"
    /\ procs' = [procs EXCEPT !.w = "loop", !.i = @ + 1]
    /\ UNCHANGED <<cache, cache0, pc, inner, ipos, keys, kpos, populate, out, log, arrived>>
    /\ UNCHANGED <<cacheVars, dbVars>>

\* the loop has run out: Err(RedisError "Redis is not online")
WaitGiveUp ==
    /\ pc = "wait"
    /\ procs.w = "loop" /\ procs.i = procs.retries
    /\ procs' = [procs EXCEPT !.w = "returned", !.ret = Some(Err("Redis is not online"))]
    /\ UNCHANGED <<cache, cache0, pc, inner, ipos, keys, kpos, populate, out, log, arrived>>
    /\ UNCHANGED <<cacheVars, dbVars>>

\* the steps of the call itself
WaitStep == WaitCheck \/ WaitSleep \/ WaitGiveUp

NextWait ==
    \/ ServerToggle
    \/ \E retries \in 0..MaxRetries : WaitCall(retries)
    \/ WaitCheck
    \/ WaitSleep
    \/ WaitGiveUp

\* the executor keeps polling the future and the sleep ends
SpecWait == InitWait /\ [][NextWait]_vars /\ WF_vars(WaitStep)


\* the map a handle points to
MapOf(h) == heap[handles[h].map]

\* two handles obtained from the same HashmapCache, by handle() or by clone()
SameCache(a, b) == handles[a].origin = handles[b].origin

(* C1: all handles obtained from one in-memory cache observe one shared    *)
(* store: a get through any of them returns the same result, and after a   *)
(* put(k, v) through one handle a get(k) through every handle of the same  *)
(* cache returns Ok(Some(v)).                                              *)
C1_HandlesShareStore ==
    /\ \A a, b \in DOMAIN handles, k \in CacheKeys, V \in ValueTypes :
          SameCache(a, b) => HashmapGet(MapOf(a), k, V) = HashmapGet(MapOf(b), k, V)
    /\ lastOp.op = "put" =>
          \A b \in DOMAIN handles :
              SameCache(lastOp.h, b) =>
                  HashmapGet(MapOf(b), lastOp.key, lastOp.val.type) = Ok(Some(lastOp.val))

\* a put through one handle while a clone of the same cache is alive
C1_Witness ==
    /\ lastOp.op = "put"
    /\ \E b \in DOMAIN handles :
          b # lastOp.h /\ SameCache(lastOp.h, b) /\ handles[b].via = "clone"

-----------------------------------------------------------------------------
(* Claims about populate_cache. *)

\* what the i-th call of next() of the populating iterator has to return
PopulateEmits(i) ==
    IF i > Len(inner) THEN None
    ELSE IF inner[i].ok THEN Some(Ok(inner[i].val[1]))
    ELSE Some(inner[i])

\* the successful inner items among the first m
OkItems(m) == {i \in 1..m : inner[i].ok}

(* C4: the populating iterator emits one item per inner item, in order:    *)
(* Ok((row, key)) as Ok(row), with put(key, row) attempted in that call;   *)
(* Err(e) as Err(e), with no cache write in that call; and None exactly    *)
(* when the inner iterator has run out.  The cache writes are exactly      *)
(* those of the successful items pulled, in order.                         *)
C4_PopulateEmitsInner ==
    pc = "populating" =>
        /\ Len(out) <= Len(inner) + 1
        /\ ipos = IF Len(out) <= Len(inner) THEN Len(out) ELSE Len(inner)
        /\ \A i \in DOMAIN out : out[i] = PopulateEmits(i)
        /\ {log[j].n : j \in DOMAIN log} = OkItems(ipos)
        /\ \A j \in DOMAIN log :
              /\ log[j].key = inner[log[j].n].val[2]
              /\ log[j].val = inner[log[j].n].val[1]
              /\ \A j2 \in DOMAIN log : j < j2 => log[j].n < log[j2].n

\* a stream of a row and a database error was pulled to its end
C4_Witness ==
    /\ pc = "populating"
    /\ Len(inner) = MaxItems /\ Len(out) = Len(inner) + 1
    /\ OkItems(Len(inner)) # {} /\ OkItems(Len(inner)) # DOMAIN inner

\* the populating iterator has returned None
PopulateDone == pc = "populating" /\ Len(out) = Len(inner) + 1

\* cache.get::<Student>(key) by the application, the cache being reachable
GetNow(key) == CacheGet(cache, key, "Student", QuietEnv)

(* C5 as stated: after populate_cache(Q) was consumed, the output is the   *)
(* rows in order and for each successful item i, cache.get(key_i) returns  *)
(* Ok(Some(row_i)).                                                        *)
C5_AsStated ==
    PopulateDone =>
        \A i \in OkItems(Len(inner)) :
            /\ out[i] = Some(Ok(inner[i].val[1]))
            /\ GetNow(inner[i].val[2]) = Ok(Some(inner[i].val[1]))

\* item i is the last successful item that carries its key
LastOfKey(i) ==
    \A i2 \in OkItems(Len(inner)) : inner[i2].val[2] = inner[i].val[2] => i2 <= i

\* the put of item i returned Ok(()) and the server did not drop it for a tombstone
PutTookEffect(i) ==
    \E j \in DOMAIN log : log[j].n = i /\ log[j].ok /\ ~log[j].dropped

(* C5, amended: after populate_cache(Q) was consumed, the output is the    *)
(* rows in order, and cache.get(key_i) returns Ok(Some(row_i)) for each    *)
(* successful item i that is the last one carrying its key and whose put   *)
(* returned Ok(()) without being dropped for a tombstone.                  *)
C5_PopulatedLastWins ==
    PopulateDone =>
        \A i \in OkItems(Len(inner)) :
            /\ out[i] = Some(Ok(inner[i].val[1]))
            /\ (LastOfKey(i) /\ PutTookEffect(i)) =>
                  GetNow(inner[i].val[2]) = Ok(Some(inner[i].val[1]))

\* two rows with different keys were populated and both writes took effect
C5_Witness ==
    /\ PopulateDone
    /\ Len(inner) = MaxItems
    /\ \A i \in DOMAIN inner : inner[i].ok /\ LastOfKey(i) /\ PutTookEffect(i)

(* C6: a failing cache.put does not abort or alter the stream: the item    *)
(* is emitted as Ok(row), the calls after it return what the inner         *)
(* iterator yields, and no emitted Err is anything but an inner Err.       *)
C6_PutFailureSwallowed ==
    /\ \A j \in DOMAIN log :
          ~log[j].ok =>
              /\ pc = "populating"
              /\ out[log[j].n] = Some(Ok(log[j].val))
              /\ \A i \in DOMAIN out : i > log[j].n => out[i] = PopulateEmits(i)
    /\ pc = "populating" =>
          \A i \in DOMAIN out :
              (out[i] # None /\ ~out[i].val.ok) => (i <= Len(inner) /\ out[i].val = inner[i])

\* the put of the first row failed and the second row was still delivered
C6_Witness ==
    /\ pc = "populating"
    /\ Len(out) > Len(inner) /\ Len(inner) = MaxItems
    /\ \A i \in DOMAIN inner : inner[i].ok
    /\ \E j \in DOMAIN log : log[j].n = 1 /\ ~log[j].ok

(***************************************************************************)
(* Claims about the lookup iterator                                        *)
(***************************************************************************)

\* the cache lookup made by the i-th call of next()
GetOf(i) == log[CHOOSE j \in DOMAIN log : log[j].op = "get" /\ log[j].n = i]

\* how the lookup of the i-th call ended: "hit", "miss", "error" or "panic"
Looked(i) == GetOf(i).val

\* the calls of next() that took a key and returned
Returned == 1..(IF Len(out) < kpos THEN Len(out) ELSE kpos)

\* among the first i calls, the lookups that missed, and those that did not hit
Misses(i) == Cardinality({m \in 1..i : Looked(m) = "miss"})
NonHits(i) == Cardinality({m \in 1..i : Looked(m) \in {"miss", "error"}})

\* the row the cache held under the key when the statement was loaded
CachedRow(key) == CacheGet(cache0, key, "Student", QuietEnv).val.val

\* the cache writes the iterator made
Puts == {log[j] : j \in {m \in DOMAIN log : log[m].op = "put"}}

\* every lookup made so far was a hit
AllHits == \A j \in DOMAIN log : log[j].op = "get" => log[j].val = "hit"

\* C7: while every key looked up is a cache hit, the lookup iterator emits for
\* the i-th key the value cached under it, in key order, and exactly
\* Len(keys) items before it ends; the inner iterator is never pulled and
\* the cache stays as it was.
C7_AllHitsServedFromCache ==
    (pc \in {"lookup", "panicked"} /\ AllHits) =>
        /\ pc = "lookup"
        /\ ipos = 0
        /\ cache = cache0
        /\ Puts = {}
        /\ Len(out) >= kpos
        /\ \A i \in 1..kpos : out[i] = Some(Ok(CachedRow(keys[i])))
        /\ Len(out) <= Len(keys) + 1
        /\ Len(out) = Len(keys) + 1 => out[Len(out)] = None

\* two different keys were both hits, the inner query had rows to give, and
\* the stream ended
C7_Witness ==
    /\ pc = "lookup" /\ AllHits
    /\ Len(keys) = 2 /\ keys[1] # keys[2]
    /\ Len(inner) = 2
    /\ Len(out) = 3
    /\ out[1] # out[2]

\* the stream was consumed to its end
LookupDone == pc = "lookup" /\ kpos = Len(keys) /\ Len(out) = Len(keys) + 1

\* every key misses when the statement is loaded and the inner query has an
\* Ok row for each key
AllMissAtStart ==
    /\ \A i \in 1..Len(keys) : CacheGet(cache0, keys[i], "Student", QuietEnv) = Ok(None)
    /\ Len(inner) >= Len(keys)
    /\ \A i \in 1..Len(keys) : inner[i].ok

\* C8 as stated: with every key a miss and populate = true, the iterator emits
\* the first rows of the inner query and afterwards the cache returns row i
\* under key i.
C8_AsStated ==
    (LookupDone /\ populate /\ keys # <<>> /\ AllMissAtStart) =>
        \A i \in 1..Len(keys) :
            /\ out[i] = Some(inner[i])
            /\ GetNow(keys[i]) = Ok(Some(inner[i].val))

\* C8: with every key a miss and populate = true (try_from_cache_and_populate,
\* which takes one key), the iterator emits the first rows of the inner query
\* in order and attempts to put row i under key i; when that put returned Ok
\* and was not dropped for a tombstone, the cache afterwards returns row i
\* under key i.
C8_MissesPopulate ==
    (LookupDone /\ populate /\ keys # <<>> /\ AllMissAtStart) =>
        \A i \in 1..Len(keys) :
            /\ out[i] = Some(inner[i])
            /\ \E e \in Puts :
                  /\ e.n = i /\ e.key = keys[i] /\ e.val = inner[i].val
                  /\ (e.ok /\ ~e.dropped) => GetNow(keys[i]) = Ok(Some(inner[i].val))

\* a miss was filled from the inner query and the row can be read back
C8_Witness ==
    /\ LookupDone /\ populate /\ keys # <<>> /\ AllMissAtStart
    /\ cache.backend = "redis"
    /\ cache # cache0
    /\ GetNow(keys[1]) = Ok(Some(inner[1].val))

\* the stream has ended at least once
HasNone == \E p \in 1..Len(out) : out[p] = None

\* the call of next() that first returned None
FirstNone == CHOOSE p \in 1..Len(out) : out[p] = None /\ \A q \in 1..(p - 1) : out[q] # None

\* the items the stream emitted
Emitted == {i \in 1..Len(out) : out[i] # None}

\* C9 as stated: the stream ends after exactly Len(keys) items unless an inner
\* error was met or the inner iterator ran out.
C9_AsStated ==
    (pc \in {"lookup", "panicked"} /\ HasNone) =>
        \/ FirstNone = Len(keys) + 1
        \/ \E i \in 1..ipos : ~inner[i].ok
        \/ ipos = Len(inner)

\* C9: the lookup iterator emits exactly Len(keys) items, one per key in key
\* order, unless it ends early on a cache lookup error or on a miss that
\* finds the inner iterator exhausted; it never emits more items than there
\* are keys.
C9_OneItemPerKey ==
    pc \in {"lookup", "panicked"} =>
        /\ Cardinality(Emitted) <= Len(keys)
        /\ \A i \in Returned : GetOf(i).key = keys[i]
        /\ HasNone =>
              \/ FirstNone = Len(keys) + 1
              \/ FirstNone <= Len(keys) /\ Looked(FirstNone) = "error"
              \/ /\ FirstNone <= Len(keys)
                 /\ Looked(FirstNone) = "miss"
                 /\ NonHits(FirstNone) > Len(inner)

\* a stream over two keys ended early on a cache lookup error although the
\* inner query still had rows
C9_Witness ==
    /\ pc = "lookup" /\ HasNone
    /\ Len(keys) = 2
    /\ FirstNone = 2
    /\ Looked(2) = "error"
    /\ ipos < Len(inner)

\* C10 as stated: the N-th miss consumes the N-th item of the inner iterator,
\* and the item at output position i belongs to key i.
C10_AsStated ==
    pc \in {"lookup", "panicked"} =>
        \A i \in Returned :
            /\ GetOf(i).key = keys[i]
            /\ Looked(i) = "hit" => out[i] = Some(Ok(CachedRow(keys[i])))
            /\ Looked(i) = "miss" =>
                  out[i] = IF Misses(i) <= Len(inner) THEN Some(inner[Misses(i)]) ELSE None

\* C10: the N-th lookup that is not a hit (a miss or a cache lookup error)
\* consumes the N-th item of the inner iterator, a miss emitting that item and
\* an error discarding it; the item at output position i belongs to key i,
\* whatever the order of the inner iterator.
C10_MissesAlignWithInner ==
    pc \in {"lookup", "panicked"} =>
        /\ ipos = (IF NonHits(kpos) <= Len(inner) THEN NonHits(kpos) ELSE Len(inner))
        /\ \A i \in Returned :
              /\ GetOf(i).key = keys[i]
              /\ Looked(i) = "hit" => out[i] = Some(Ok(CachedRow(keys[i])))
              /\ Looked(i) = "miss" =>
                    out[i] = IF NonHits(i) <= Len(inner) THEN Some(inner[NonHits(i)]) ELSE None
              /\ Looked(i) = "error" => out[i] = None

\* a miss came first and a hit second: the first inner row is at output
\* position 1 and the cached row at position 2, and the second inner row was
\* never pulled
C10_Witness ==
    /\ pc = "lookup"
    /\ Len(keys) = 2 /\ kpos = 2 /\ Len(out) >= 2
    /\ Looked(1) = "miss" /\ Looked(2) = "hit"
    /\ Len(inner) = 2 /\ inner[1].ok /\ inner[2].ok /\ inner[1] # inner[2]
    /\ out[1] = Some(inner[1])
    /\ out[2] = Some(Ok(CachedRow(keys[2])))
    /\ ipos = 1

\* the inner query selects the rows of the keys of the lookup, one row per
\* key, and the database returns them in the order of the keys
SelectsRowsOfKeys ==
    /\ Len(inner) = Len(keys)
    /\ \A i \in DOMAIN inner : inner[i].ok /\ KeyOf(inner[i].val) = keys[i]
    /\ Cardinality({keys[i] : i \in DOMAIN keys}) = Len(keys)

\* when the statement was loaded the cache held the row of the first key and
\* nothing under the other keys
OnlyFirstKeyCached ==
    /\ keys # <<>>
    /\ CacheGet(cache0, keys[1], "Student", QuietEnv) = Ok(Some(inner[1].val))
    /\ \A i \in 2..Len(keys) : CacheGet(cache0, keys[i], "Student", QuietEnv) = Ok(None)

\* C11 as stated: when the cache holds only the row of the first key and the
\* inner query selects the rows of all the keys, try_from_cache_multi emits
\* the cached row for the first key and, for each missed key, the database
\* row that belongs to that key.
C11_AsStated ==
    (pc = "lookup" /\ ~populate /\ SelectsRowsOfKeys /\ OnlyFirstKeyCached) =>
        \A i \in Returned :
            /\ Looked(i) = "hit" => out[i] = Some(Ok(CachedRow(keys[i])))
            /\ Looked(i) = "miss" => (out[i] # None /\ KeyOf(out[i].val.val) = keys[i])

\* C12: try_from_cache and try_from_cache_multi (populate = false) never write
\* to the cache: a miss emits the row pulled from the inner query without
\* inserting it, so the cache stays as it was when the statement was loaded
\* and a key that missed still misses.
C12_LookupNeverWrites ==
    (pc \in {"lookup", "panicked"} /\ ~populate) =>
        /\ cache = cache0
        /\ Puts = {}
        /\ \A i \in Returned :
              Looked(i) = "miss" =>
                  /\ out[i] = IF NonHits(i) <= Len(inner) THEN Some(inner[NonHits(i)]) ELSE None
                  /\ GetNow(keys[i]) = Ok(None)

\* two keys missed, both got a row of the inner query, and the stream ended
C12_Witness ==
    /\ pc = "lookup" /\ ~populate
    /\ Len(keys) = 2 /\ Len(out) = 3
    /\ Looked(1) = "miss" /\ Looked(2) = "miss"
    /\ out[1] # None /\ out[1].val.ok
    /\ out[2] # None /\ out[2].val.ok

\* the first call of next() of try_from_cache_and_populate(h, k) found k missing
PopulateMissed == pc = "lookup" /\ populate /\ 1 \in Returned /\ Looked(1) = "miss"

\* the item the first pull of the inner iterator gives
FirstInner == IF Len(inner) >= 1 THEN Some(inner[1]) ELSE None

\* C13 as stated: when k misses, one inner item is pulled and yielded; if it
\* is Ok(row), put(k, row) is attempted and, unless that put fails, a
\* following get(k) returns Ok(Some(row)); a failing put is not propagated.
C13_AsStated ==
    PopulateMissed =>
        /\ out[1] = FirstInner
        /\ ipos = (IF Len(inner) >= 1 THEN 1 ELSE 0)
        /\ (FirstInner # None /\ inner[1].ok) =>
              \E e \in Puts :
                  /\ Puts = {e}
                  /\ e.key = keys[1] /\ e.val = inner[1].val
                  /\ e.ok => GetNow(keys[1]) = Ok(Some(inner[1].val))
        /\ (FirstInner = None \/ ~inner[1].ok) => Puts = {}

\* C13: when k misses, try_from_cache_and_populate(h, k) pulls one item from
\* the inner iterator and yields it; if it is Ok(row), exactly one
\* put(k, row) is attempted, and a following get(k) returns Ok(Some(row))
\* when that put returned Ok(()) and the server did not drop it for a
\* tombstone; a failing put is not propagated and the row is still yielded.
C13_PopulateOnMiss ==
    PopulateMissed =>
        /\ out[1] = FirstInner
        /\ ipos = (IF Len(inner) >= 1 THEN 1 ELSE 0)
        /\ (FirstInner # None /\ inner[1].ok) =>
              \E e \in Puts :
                  /\ Puts = {e}
                  /\ e.key = keys[1] /\ e.val = inner[1].val
                  /\ (e.ok /\ ~e.dropped) => GetNow(keys[1]) = Ok(Some(inner[1].val))
        /\ (FirstInner = None \/ ~inner[1].ok) => Puts = {}

\* the key missed, the put of the row failed, and the row was yielded all the same
C13_Witness ==
    /\ PopulateMissed
    /\ out[1] # None /\ out[1].val.ok
    /\ \E e \in Puts : ~e.ok

-----------------------------------------------------------------------------
(* Statements over the students table                                      *)

\* key held a student when the last statement started
HitAtLoad(key) ==
    LET got == CacheGet(cache0, key, "Student", QuietEnv)
    IN got.ok /\ got.val # None

\* the statement sent a query to the database
Queried == \E j \in DOMAIN trace : trace[j].ev = "query"

\* C14 as stated: try_from_cache(h, k) with k in the cache returns the cached
\* value without querying the database: loading the wrapper performs no
\* database access at all, so the load cannot fail on the database either.
C14_AsStated ==
    (stmt.kind = "try_from_cache" /\ HitAtLoad(stmt.keys[1])) =>
        /\ ~Queried
        /\ stmt.ret.ok

\* the positions of the trace at which a key was deleted, the inner update run
Deletes == {j \in DOMAIN trace : trace[j].ev = "delete"}
Executes == {j \in DOMAIN trace : trace[j].ev = "execute"}

\* an update through the update wrapper has just returned
Invalidating == pc = "returned" /\ stmt.kind = "invalidate"

\* cache.delete was called for every key of the statement, in order, and
\* every call returned Ok
AllDeleted ==
    /\ Cardinality(Deletes) = Len(stmt.keys)
    /\ \A j \in Deletes : j <= Len(stmt.keys) /\ trace[j].key = stmt.keys[j] /\ trace[j].ok

\* some call of cache.delete returned an error
SomeDeleteFailed == \E j \in Deletes : ~trace[j].ok

\* C15: UpdateWrapper.execute has exactly two observable outcomes: either
\* every cache deletion succeeded and the inner update was executed, or a
\* deletion failed, the inner update was never executed (the table is as it
\* was) and the rollback-signalling error RollbackTransaction was returned.
C15_TwoOutcomes ==
    Invalidating =>
        \/ /\ AllDeleted
           /\ Cardinality(Executes) = 1
        \/ /\ SomeDeleteFailed
           /\ Executes = {}
           /\ db = stmt.before
           /\ stmt.ret = Err("RollbackTransaction")

\* the second of two deletions failed and the update was not executed
C15_Witness ==
    /\ Invalidating
    /\ Len(stmt.keys) = 2
    /\ Len(trace) = 2 /\ trace[1].ok /\ ~trace[2].ok
    /\ stmt.ret = Err("RollbackTransaction")

\* C16: in every execution of UpdateWrapper.execute all the calls of
\* cache.delete happen before the inner update is executed: when the update
\* runs, every listed key has been deleted, in order, and no delete follows.
C16_DeleteBeforeUpdate ==
    Invalidating =>
        \A i \in Executes :
            /\ i = Len(stmt.keys) + 1
            /\ i = Len(trace)
            /\ \A j \in 1..(i - 1) : trace[j] = Event("delete", stmt.keys[j], TRUE)

\* two keys were deleted and then the update was executed
C16_Witness ==
    /\ Invalidating
    /\ Len(stmt.keys) = 2 /\ stmt.keys[1] # stmt.keys[2]
    /\ Len(trace) = 3
    /\ trace[1].ev = "delete" /\ trace[2].ev = "delete" /\ trace[3].ev = "execute"

\* C17 as stated: the keys are deleted from the cache after the update has
\* executed, and only when that update succeeded.
C17_AsStated ==
    Invalidating =>
        \A j \in Deletes : \E i \in Executes : i < j /\ trace[i].ok

\* C18: when all deletions succeed, UpdateWrapper.execute executes the inner
\* update exactly once and returns its result verbatim, Ok(row count) with the
\* table updated or the database error with the table as it was; a failing
\* update does not restore the deleted keys.
C18_UpdateResultVerbatim ==
    (Invalidating /\ AllDeleted) =>
        /\ Cardinality(Executes) = 1
        /\ \E upd \in Updates :
              /\ stmt.ids = {upd.id}
              /\ \E dbres \in DbOutcomes :
                    LET r == DbExecute(stmt.before, upd, dbres)
                    IN /\ stmt.ret = r.ret
                       /\ db = r.db
                       /\ trace[Len(trace)].ok = (dbres = "ok")
        /\ ~stmt.ret.ok =>
              \A k \in KeySet(stmt.keys) : GetNow(k) = Ok(None)

\* a cached key was deleted, the update returned the database error, and the
\* key stays deleted
C18_Witness ==
    /\ Invalidating /\ AllDeleted
    /\ stmt.ret = Err("DatabaseError")
    /\ \E k \in KeySet(stmt.keys) : HitAtLoad(k) /\ GetNow(k) = Ok(None)

\* a try_from_cache(h, k) statement, plain or chained after populate_cache,
\* has answered its key
LookedUp ==
    /\ pc \in {"lookup", "chain"}
    /\ stmt.kind \in {"try_from_cache", "populate_cache.try_from_cache"}
    /\ 1 \in Returned

\* the row the database holds now for the filter of the statement
RowNow == DbRow(db, CHOOSE i \in stmt.ids : TRUE)

\* C19: after update(..).invalidate_key(h, k).execute() succeeded and no
\* statement that can put k ran since, get(k) returns Ok(None), and a
\* following try_from_cache(h, k) over the matching select yields the row as
\* it is in the database now.
C19_InvalidateThenRefetch ==
    /\ \A k \in invalidated : GetNow(k) = Ok(None)
    /\ (LookedUp /\ stmt.kind = "try_from_cache" /\ keys[1] \in invalidated) =>
          /\ keys[1] = KeyOf(RowNow)
          /\ out[1] = Some(Ok(RowNow))

\* the refetch after an invalidating update yields the updated row
C19_Witness ==
    /\ LookedUp /\ stmt.kind = "try_from_cache" /\ keys[1] \in invalidated
    /\ out[1] = Some(Ok(Student(2, "Ori1")))

\* C20: an update executed without the invalidate wrapper leaves the cache
\* unchanged, and try_from_cache(h, k), also when chained after
\* populate_cache, for a cached key yields the cached value, whatever the
\* database holds, and keeps that value in the cache.
C20_StaleCacheWins ==
    /\ (pc = "returned" /\ stmt.kind = "update") => cache = cache0
    /\ (LookedUp /\ HitAtLoad(keys[1])) =>
          /\ out[1] = Some(Ok(CachedRow(keys[1])))
          /\ GetNow(keys[1]) = Ok(Some(CachedRow(keys[1])))
          /\ cache = cache0

\* the chained lookup yields the cached row while the database holds the
\* updated one
C20_Witness ==
    /\ LookedUp /\ stmt.kind = "populate_cache.try_from_cache"
    /\ HitAtLoad(keys[1])
    /\ out[1] = Some(Ok(Student(2, "Ori")))
    /\ RowNow = Student(2, "Ori1")

\* the chain populate_cache(h).try_from_cache(h, k) has answered k, and k missed
ChainMissed == pc = "chain" /\ 1 \in Returned /\ Looked(1) = "miss"

\* C21 as stated: when k is absent from the cache the chain emits the
\* database row, and afterwards get(k) returns Ok(Some(that row)).
C21_AsStated ==
    ChainMissed =>
        /\ out[1] = Some(Ok(RowNow))
        /\ GetNow(keys[1]) = Ok(Some(RowNow))

\* C21: when k is absent from the cache the chain emits the database row
\* and attempts exactly one put of that row under its key; afterwards
\* get(k) returns Ok(Some(that row)) when the put returned Ok(()) and the
\* server did not drop it for a tombstone, which is always so on the
\* in-memory cache.
C21_ChainPopulatesOnMiss ==
    ChainMissed =>
        /\ out[1] = Some(Ok(RowNow))
        /\ \E e \in Puts :
              /\ Puts = {e}
              /\ e.key = keys[1] /\ e.val = RowNow
              /\ (e.ok /\ ~e.dropped) => GetNow(keys[1]) = Ok(Some(RowNow))
              /\ cache.backend = "hashmap" => (e.ok /\ ~e.dropped)

\* the chain missed on the Redis handle, emitted the updated row and cached it
C21_Witness ==
    /\ ChainMissed
    /\ cache.backend = "redis"
    /\ out[1] = Some(Ok(Student(2, "Ori1")))
    /\ GetNow(keys[1]) = Ok(Some(Student(2, "Ori1")))

-----------------------------------------------------------------------------
(* The Redis server and its clients                                        *)

\* the positions of the calls on key the server served, in order of arrival
ServedOn(key) == {i \in DOMAIN arrived : arrived[i].key = key /\ arrived[i].served}

\* timestamp a is strictly older than timestamp b
TsOlder(a, b) == ~TsGeq(a, b)

\* C22: if an invalidate(k, t_i) and a set(k, v, t_s) with t_s < t_i are the
\* calls on k that reached the server, then in both arrival orders the
\* server holds no value for k.
C22_InvalidateBeatsOlderSet ==
    \A k \in CacheKeys :
        \A i \in ServedOn(k), j \in ServedOn(k) :
            (/\ ServedOn(k) = {i, j}
             /\ arrived[i].op = "delete" /\ arrived[j].op = "put"
             /\ TsOlder(arrived[j].ts, arrived[i].ts))
            => td_get(cache.srv, k) = None

\* the invalidate arrived first and the older set after it: no value is held
C22_Witness ==
    \E k \in CacheKeys :
        /\ ServedOn(k) = {1, 2}
        /\ arrived[1].op = "delete" /\ arrived[2].op = "put"
        /\ TsOlder(arrived[2].ts, arrived[1].ts)
        /\ td_get(cache.srv, k) = None

(* A reader racing an invalidating update *)

\* both chains have finished
BothDone ==
    /\ pc = "race"
    /\ procs.reader.pc \in {"done", "panicked"}
    /\ procs.updater.pc = "done"

\* C23 as stated: in every interleaving of a populating read chain and an
\* update chain invalidate_key(k).execute() on the same row, once both have
\* finished the cache holds for k no row that differs from the row of the
\* database.
C23_AsStated ==
    BothDone =>
        \/ StoredText(cache, RaceKey) = None
        \/ StoredText(cache, RaceKey) = Some(to_string(DbRow(db, RaceId)))

\* a put has just been served
PutArrives == Len(arrived') = Len(arrived) + 1 /\ arrived'[Len(arrived')].op = "put"

\* the tombstone of key is missing or strictly older than ts
Fresh(srv, key, ts) == key \notin DOMAIN srv.tomb \/ TsOlder(srv.tomb[key], ts)

\* C24: td_set stores the value if and only if the key has no tombstone or
\* its tombstone is strictly older than the supplied timestamp, compared as
\* the pair (sec, nsec); with an equal or newer tombstone the write is
\* dropped and the server state is unchanged.
C24_SetIffTombstoneOlder ==
    [][PutArrives =>
          LET e == arrived'[Len(arrived')]
          IN IF Fresh(cache.srv, e.key, e.ts)
             THEN /\ td_get(cache'.srv, e.key) = Some(to_string(e.val))
                  /\ cache'.srv.tomb = cache.srv.tomb
                  /\ \A k \in CacheKeys \ {e.key} : td_get(cache'.srv, k) = td_get(cache.srv, k)
             ELSE cache'.srv = cache.srv]_vars

\* a set with the timestamp of the tombstone was dropped, one with a newer
\* nanosecond part in the same second was stored
C24_Witness ==
    /\ Len(arrived) = 3
    /\ arrived[1].op = "delete" /\ arrived[2].op = "put" /\ arrived[3].op = "put"
    /\ arrived[1].key = arrived[2].key /\ arrived[1].key = arrived[3].key
    /\ arrived[2].ts = arrived[1].ts
    /\ arrived[3].ts.sec = arrived[1].ts.sec /\ arrived[3].ts.nsec > arrived[1].ts.nsec
    /\ arrived[2].val # arrived[3].val
    /\ td_get(cache.srv, arrived[1].key) = Some(to_string(arrived[3].val))

\* C25 as stated: in every arrival order of invalidates and sets on one key,
\* a set whose timestamp is older than the timestamp of an invalidate the
\* server has already received is rejected.
C25_AsStated ==
    [][PutArrives =>
          LET e == arrived'[Len(arrived')]
          IN (\E i \in ServedOn(e.key) :
                 arrived[i].op = "delete" /\ TsOlder(e.ts, arrived[i].ts))
             => cache'.srv = cache.srv]_vars

\* call i is a put that returned Ok and call i + 1 is a get of the same key
\* and the same type that reached the server and came back
PutThenGet(i) ==
    /\ i \in DOMAIN arrived /\ i + 1 \in DOMAIN arrived
    /\ arrived[i].op = "put" /\ arrived[i].ret = Ok(Unit)
    /\ arrived[i + 1].op = "get" /\ arrived[i + 1].key = arrived[i].key
    /\ arrived[i + 1].val.type = arrived[i].val.type
    /\ arrived[i + 1].fault = "none"

\* every delete of the key of call i served before it carries a strictly older timestamp
NewerThanDeletes(i) ==
    \A j \in 1..(i - 1) :
        (arrived[j].op = "delete" /\ arrived[j].key = arrived[i].key /\ arrived[j].served)
        => TsOlder(arrived[j].ts, arrived[i].ts)

\* C26 as stated: for a single client with non-decreasing timestamps and no
\* concurrent writer, put(k, v) followed by get(k) returns Some(v) in every
\* sequence of operations, also when the put directly follows a delete(k).
C26_AsStated ==
    \A i \in DOMAIN arrived :
        PutThenGet(i) => arrived[i + 1].ret = Ok(Some(arrived[i].val))

\* C26: for a single client with non-decreasing timestamps and no concurrent
\* writer, put(k, v) followed by get(k) returns Some(v) whenever the put's
\* timestamp is strictly newer than that of every earlier delete(k) the
\* server has served.
C26_PutThenGetAfterOlderDelete ==
    \A i \in DOMAIN arrived :
        (PutThenGet(i) /\ NewerThanDeletes(i))
        => arrived[i + 1].ret = Ok(Some(arrived[i].val))

\* delete(k), then put(k, v) at a later clock reading, then get(k) = Some(v)
C26_Witness ==
    /\ Len(arrived) = 3
    /\ arrived[1].op = "delete" /\ arrived[1].served /\ arrived[1].key = arrived[2].key
    /\ PutThenGet(2) /\ NewerThanDeletes(2)
    /\ arrived[3].ret = Ok(Some(arrived[2].val))

\* C27 as stated: every operation of a cache handle reports a transport or a
\* serialization failure as Err(CacheError); no failure panics.
C27_AsStated ==
    \A i \in DOMAIN arrived :
        (arrived[i].op \in {"get", "put", "delete"} /\ arrived[i].fault # "none")
        => IsErr(arrived[i].ret)

-----------------------------------------------------------------------------
(* Errors of the cache layer and of the database in the row streams        *)

\* the cache holds under key a text that is not a serialized Student
Undeserializable(c, key) ==
    /\ StoredText(c, key) # None
    /\ ~from_str("Student", StoredText(c, key).val).ok

\* next() takes the key at position kpos + 1
TakesKey == pc = "lookup" /\ kpos < Len(keys) /\ kpos' = kpos + 1

\* C28: a stored value that cannot be deserialized makes get return
\* Err(CacheError), never Ok(None), and the lookup iterator does not answer
\* such a key like a miss: the call of next() that meets it yields no row
\* (it returns None, or panics on a transport fault of the Redis get).
C28_UndeserializableIsError ==
    [][(TakesKey /\ Undeserializable(cache, keys[kpos + 1])) =>
          LET g == log'[Len(log) + 1]
          IN /\ IsErr(CacheGet(cache, keys[kpos + 1], "Student", QuietEnv))
             /\ g.op = "get" /\ g.key = keys[kpos + 1]
             /\ g.val \in {"error", "panic"}
             /\ IF g.val = "panic"
                THEN pc' = "panicked" /\ out' = out
                ELSE out' = Append(out, None)]_vars

\* the key of a try_from_cache held a text that is no Student: the call
\* returned None, the row of the database was pulled and not yielded
C28_Witness ==
    /\ pc = "lookup" /\ kpos = 1 /\ out = <<None>>
    /\ Undeserializable(cache0, keys[1])
    /\ Looked(1) = "error"
    /\ ipos = 1 /\ inner[1].ok

\* a call of next() of a populating or of a lookup iterator returns
Returns == pc \in {"populating", "lookup"} /\ Len(out') = Len(out) + 1

\* the cache writes among the entries of a log
PutsIn(lg) == {j \in DOMAIN lg : lg[j].op = "put"}

\* C29: every element the populating and the lookup iterators emit is a row
\* or a database error; an Err element is the Err item the inner iterator
\* gave to that call, unchanged (also on the fallback after a cache miss),
\* nothing is written to the cache for it, and no error of the cache layer
\* is ever an element.
C29_ErrorsAreInnerErrors ==
    [][Returns =>
          LET e == out'[Len(out')]
          IN e # None =>
                IF e.val.ok
                THEN e.val.val \in Rows
                ELSE /\ e.val \in {Err(x) : x \in DbErrors}
                     /\ InnerNext = e
                     /\ ipos' = ipos + 1
                     /\ cache' = cache
                     /\ PutsIn(log') = PutsIn(log)]_vars

\* a try_from_cache_and_populate missed, the query gave a database error:
\* the error is the element and the cache is as it was
C29_Witness ==
    /\ pc = "lookup" /\ populate
    /\ out = <<Some(Err("DatabaseError"))>>
    /\ Looked(1) = "miss"
    /\ inner[1] = Err("DatabaseError")
    /\ cache = cache0
    /\ PutsIn(log) = {}

-----------------------------------------------------------------------------
(* Dropping a row stream                                                   *)

\* a row iterator exists
Iterating == pc \in {"populating", "lookup", "chain"}

\* what the cache holds under every key
Contents(c) == [k \in CacheKeys |-> StoredText(c, k)]

\* the row and the key a call of next() that pulls from the database works on
PulledRow == IF pc = "lookup" THEN InnerNext.val.val ELSE InnerNext.val.val[1]
PulledKey == IF pc = "populating" THEN InnerNext.val.val[2] ELSE keys[kpos + 1]

\* C30: the iterators write to the cache only inside a call of next(), at
\* most one write per call; when the consumer stops pulling and drops the
\* iterator nothing more is written, and what a call wrote is the row that
\* call pulled from the database, under the key of that call.
C30_WritesOnlyInNext ==
    [][/\ (Iterating /\ (Contents(cache') # Contents(cache) \/ PutsIn(log') \ PutsIn(log) # {})) =>
             /\ pc' = pc
             /\ Len(out') = Len(out) + 1
             /\ InnerNext # None /\ InnerNext.val.ok /\ ipos' = ipos + 1
             /\ PutsIn(log') = PutsIn(log) \cup {Len(log')}
             /\ LET w == log'[Len(log')]
                IN /\ w.val = PulledRow /\ w.key = PulledKey
                   /\ \A k \in CacheKeys :
                         \/ StoredText(cache', k) = StoredText(cache, k)
                         \/ k = w.key /\ StoredText(cache', k) = Some(to_string(w.val))
       /\ (Iterating /\ pc' = "setup") => Contents(cache') = Contents(cache)
       /\ (~Iterating /\ Contents(cache') # Contents(cache)) => stmt'.kind = "invalidate"]_vars

\* a populate_cache stream over two rows has been pulled once: one write
\* was made, the cache holds the first row and not the second
C30_Witness ==
    /\ pc = "populating" /\ Len(inner) = 2
    /\ Len(out) = 1 /\ ipos = 1
    /\ Cardinality(PutsIn(log)) = 1
    /\ StoredText(cache, inner[1].val[2]) = Some(to_string(inner[1].val[1]))
    /\ StoredText(cache, inner[2].val[2]) = None

-----------------------------------------------------------------------------
(* The end of a lookup stream                                              *)

\* this call of next() takes a key whose cache lookup returns Err
GetFails ==
    /\ TakesKey
    /\ pc' = "lookup"
    /\ log'[Len(log) + 1].op = "get" /\ log'[Len(log) + 1].val = "error"

\* C31 as stated: after a cache.get that returned Err no item is emitted for
\* that key or for any later key.
C31_AsStated ==
    pc \in {"lookup", "panicked"} =>
        \A i \in Returned :
            Looked(i) = "error" => \A j \in i..Len(out) : out[j] = None

\* C31: when cache.get(key) returns Err in the lookup iterator, the inner
\* iterator is advanced by exactly one item (when it has one), that item is
\* not emitted, and next() returns None for that step: no item is emitted
\* for that key.  A consumer that stops at the first None gets no item for a
\* later key either.
C31_ErrorDiscardsOneRow ==
    [][GetFails =>
          /\ ipos' = (IF ipos < Len(inner) THEN ipos + 1 ELSE ipos)
          /\ out' = Append(out, None)
          /\ kpos' = kpos + 1
          /\ inner' = inner /\ keys' = keys]_vars

\* two keys, the lookup of the first failed and discarded the first row of
\* the query while a second row was left
C31_Witness ==
    /\ pc = "lookup" /\ Len(keys) = 2 /\ kpos = 1
    /\ Looked(1) = "error"
    /\ out = <<None>>
    /\ ipos = 1 /\ Len(inner) = 2 /\ inner[1].ok

\* this call of next() takes a key that misses while the inner iterator has
\* no row left
MissUnfilled ==
    /\ TakesKey
    /\ log'[Len(log) + 1].op = "get" /\ log'[Len(log) + 1].val = "miss"
    /\ InnerNext = None

\* C32 as stated: after a miss that found the inner iterator exhausted every
\* later call of next() returns None, also for a key that would hit.
C32_AsStated ==
    pc \in {"lookup", "panicked"} =>
        \A i \in Returned :
            (Looked(i) = "miss" /\ out[i] = None) => \A j \in i..Len(out) : out[j] = None

\* C32: when a key misses and the inner iterator is exhausted, next() returns
\* None for that call and writes nothing, which ends the iteration of a
\* caller that stops at the first None; the key is consumed and the iterator
\* stays usable.
C32_UnfilledMissReturnsNone ==
    [][MissUnfilled =>
          /\ pc' = pc
          /\ out' = Append(out, None)
          /\ kpos' = kpos + 1 /\ ipos' = ipos
          /\ cache' = cache
          /\ PutsIn(log') = PutsIn(log)]_vars

\* the first key missed with no row left and got None; the next call took
\* the second key, which hit, and emitted its cached value
C32_Witness ==
    /\ pc = "lookup" /\ Len(keys) = 2 /\ kpos = 2
    /\ inner = <<>>
    /\ Looked(1) = "miss" /\ Looked(2) = "hit"
    /\ out = <<None, Some(Ok(CachedRow(keys[2])))>>

-----------------------------------------------------------------------------
(* Frame conditions of the in-memory cache                                 *)

\* the keys among ks that a pattern of Patterns stands for
Matching(pattern, ks) ==
    IF pattern[1] = "t" THEN {}
    ELSE IF pattern[1] = "*" THEN ks \cap {"student:2"}
    ELSE ks \cap {"student:1", "student:2"}

\* the store a handle points to
StoreOf(h) == heap[handles[h].map]

\* C33: get and scan_keys are read-only: the store after the call equals the
\* store before it, for every store, key and pattern; scan_keys(pattern)
\* returns exactly the entries, as stored, whose key matches the pattern at
\* the time of the call.
C33_ReadsLeaveStore ==
    [][(lastOp' # lastOp /\ lastOp'.op \in {"get", "scan_keys"}) =>
          /\ heap' = heap /\ handles' = handles
          /\ lastOp'.op = "scan_keys" =>
                LET m == StoreOf(lastOp'.h)
                    found == lastOp'.res.val
                IN /\ lastOp'.res.ok
                   /\ DOMAIN found = Matching(lastOp'.pattern, DOMAIN m)
                   /\ \A k \in DOMAIN found : found[k] = m[k]]_vars

\* scan_keys("student:*") on a store holding both students returned the two
\* entries, and the store still holds them
C33_Witness ==
    /\ lastOp.op = "scan_keys"
    /\ lastOp.pattern = <<"s", "t", "u", "d", "e", "n", "t", ":", "*">>
    /\ DOMAIN lastOp.res.val = {"student:1", "student:2"}
    /\ DOMAIN StoreOf(lastOp.h) = {"student:1", "student:2"}

\* the two stores agree on every key but k
SameButFor(m1, m2, k) ==
    \A k2 \in CacheKeys \ {k} :
        /\ (k2 \in DOMAIN m1) = (k2 \in DOMAIN m2)
        /\ k2 \in DOMAIN m1 => m1[k2] = m2[k2]

\* C34: put overwrites and is local to its key: after put(k, v), whatever k
\* held before, get(k) returns Some(v), and put(k, _) and delete(k) leave
\* the value of every other key unchanged.
C34_PutOverwritesLocally ==
    [][(lastOp' # lastOp /\ lastOp'.op \in {"put", "delete"}) =>
          LET rc == handles[lastOp'.h].map
              k == lastOp'.key
          IN /\ SameButFor(heap[rc], heap'[rc], k)
             /\ \A c \in DOMAIN heap \ {rc} : heap'[c] = heap[c]
             /\ lastOp'.op = "put" =>
                   HashmapGet(heap'[rc], k, lastOp'.val.type) = Ok(Some(lastOp'.val))]_vars

\* put(k, v2) on a store that held v1 under k and a value under the other
\* key: k reads v2
C34_Witness ==
    /\ lastOp.op = "put"
    /\ lastOp.old.ok /\ lastOp.old.val # None /\ lastOp.old.val.val # lastOp.val
    /\ HashmapGet(StoreOf(lastOp.h), lastOp.key, lastOp.val.type) = Ok(Some(lastOp.val))
    /\ \E k2 \in CacheKeys \ {lastOp.key} : k2 \in DOMAIN StoreOf(lastOp.h)

\* C35 as stated: every value the lookup iterator writes to the cache is the
\* row the same call of next() yields for that key, and a call whose
\* cache.get failed writes nothing.
C35_AsStated ==
    pc \in {"lookup", "panicked"} =>
        \A j \in PutsIn(log) :
            log[j].n \in 1..Len(out) =>
                /\ out[log[j].n] = Some(Ok(log[j].val))
                /\ Looked(log[j].n) # "error"

\* the smaller of two numbers
Min(a, b) == IF a < b THEN a ELSE b

\* the keys consumed so far whose cache lookup was not a hit
NotHit == {m \in 1..kpos : Looked(m) # "hit"}

\* C36 as stated: at every point of a lookup stream the number of items
\* pulled from the inner iterator equals the number of consumed keys whose
\* cache lookup was not a hit, and never exceeds the number of keys consumed.
C36_AsStated ==
    pc \in {"lookup", "panicked"} =>
        /\ ipos = Cardinality(NotHit)
        /\ ipos <= kpos

\* C36: at every point of a lookup stream the number of items pulled from
\* the inner iterator equals the number of consumed keys whose cache lookup
\* returned a miss or an error, capped by the number of rows the inner
\* iterator has, and never exceeds the number of keys consumed; a key is
\* consumed before the cache is consulted, and once the key sequence is
\* exhausted next() returns None without touching the inner iterator or the
\* cache.
C36_PullsFollowMisses ==
    [][pc' \in {"lookup", "panicked"} =>
          /\ ipos' = Min(NonHits(kpos)', Len(inner'))
          /\ ipos' <= kpos'
          /\ TakesKey =>
                /\ log'[Len(log) + 1].op = "get"
                /\ log'[Len(log) + 1].key = keys[kpos + 1]
          /\ (pc = "lookup" /\ kpos = Len(keys) /\ out' # out) =>
                /\ out' = Append(out, None)
                /\ ipos' = ipos /\ kpos' = kpos
                /\ cache' = cache /\ log' = log]_vars

\* the keys ran out after one hit while the query still had its row:
\* next() returned None and the row was never pulled
C36_Witness ==
    /\ pc = "lookup" /\ Len(keys) = 1 /\ kpos = 1
    /\ Looked(1) = "hit"
    /\ Len(out) = 2 /\ out[2] = None
    /\ ipos = 0 /\ Len(inner) = 1

-----------------------------------------------------------------------------
(* A failing deletion in the update wrapper                                *)

\* the position of the call of cache.delete that failed
FailedAt == CHOOSE j \in Deletes : ~trace[j].ok

\* the server holds for key what it held when the statement started
Untouched(key) ==
    /\ StoredText(cache, key) = StoredText(cache0, key)
    /\ (key \in DOMAIN cache.srv.tomb) = (key \in DOMAIN cache0.srv.tomb)
    /\ key \in DOMAIN cache.srv.tomb => cache.srv.tomb[key] = cache0.srv.tomb[key]

\* C37: when UpdateWrapper.execute is given the keys k_0..k_{n-1} and the
\* deletion of k_j fails, the keys before k_j have been deleted and stay
\* deleted, no deletion is attempted for the keys after k_j, which are as
\* they were, and the inner update is not executed; with an empty key
\* sequence the update is executed and the cache is unchanged.
C37_FailedDeleteStops ==
    Invalidating =>
        /\ SomeDeleteFailed =>
              /\ Len(trace) = FailedAt
              /\ \A i \in 1..FailedAt : trace[i].ev = "delete" /\ trace[i].key = stmt.keys[i]
              /\ \A i \in 1..(FailedAt - 1) :
                    trace[i].ok /\ StoredText(cache, stmt.keys[i]) = None
              /\ \A i \in (FailedAt + 1)..Len(stmt.keys) :
                    stmt.keys[i] \notin {stmt.keys[m] : m \in 1..FailedAt}
                        => Untouched(stmt.keys[i])
              /\ Executes = {} /\ db = stmt.before
        /\ stmt.keys = <<>> =>
              /\ Cardinality(Executes) = 1 /\ Len(trace) = 1
              /\ cache = cache0

\* the first key was cached and is gone, the deletion of the second key
\* failed, the table is as it was
C37_Witness ==
    /\ Invalidating
    /\ Len(stmt.keys) = 2 /\ stmt.keys[1] # stmt.keys[2]
    /\ SomeDeleteFailed /\ FailedAt = 2
    /\ StoredText(cache0, stmt.keys[1]) # None
    /\ StoredText(cache, stmt.keys[1]) = None
    /\ db = stmt.before

-----------------------------------------------------------------------------
(* Select wrappers whose inner query fails, or that are only executed      *)

\* the statements that load a wrapped select
LoadKinds ==
    {"populate_cache", "try_from_cache", "try_from_cache_and_populate",
     "try_from_cache_multi", "populate_cache.try_from_cache"}

\* the inner query of the statement was sent and failed
QueryFailed == trace # <<>> /\ trace[1] = Event("query", "", FALSE)

\* C38: when inner_select.internal_load returns Err, the load of a select
\* wrapper returns that Err, makes no cache get or put and consumes no key;
\* execute() on a select wrapper hands the inner query on and makes no
\* cache operation.
C38_FailedLoadLeavesCache ==
    /\ (stmt.kind \in LoadKinds /\ QueryFailed) =>
          /\ pc = "returned"
          /\ stmt.ret = Err("DatabaseError")
          /\ cache = cache0
          /\ log = <<>> /\ out = <<>>
          /\ kpos = 0 /\ ipos = 0
    /\ stmt.kind \in ExecuteKinds =>
          /\ pc = "returned"
          /\ trace = <<Event("execute", "", stmt.ret.ok)>>
          /\ stmt.ret.ok => stmt.ret.val = Cardinality(stmt.ids)
          /\ cache = cache0
          /\ log = <<>> /\ kpos = 0 /\ db = stmt.before

\* a try_from_cache_and_populate over a cached key whose query failed: the
\* error was returned and the cache still holds what it held
C38_Witness ==
    /\ pc = "returned" /\ stmt.kind = "try_from_cache_and_populate"
    /\ QueryFailed
    /\ stmt.ret = Err("DatabaseError")
    /\ StoredText(cache, stmt.keys[1]) # None

\* a call of wait_until_online has returned
Waited == pc = "wait" /\ procs.w = "returned"

\* the checks made so far all failed, but possibly the last
FailedBefore(n) == \A j \in 1..(n - 1) : ~procs.checks[j]

\* what holds at every point of a call of wait_until_online
WaitBounded ==
    pc = "wait" =>
        LET n == Len(procs.checks) IN
        /\ n <= procs.retries
        /\ FailedBefore(n)
        /\ (n > 0 /\ procs.checks[n]) => Waited /\ procs.ret = Some(Ok(Unit))
        /\ (Waited /\ procs.ret = Some(Ok(Unit))) => n > 0 /\ procs.checks[n]
        /\ (Waited /\ procs.ret # Some(Ok(Unit))) =>
               /\ procs.ret = Some(Err("Redis is not online"))
               /\ n = procs.retries
               /\ \A j \in 1..n : ~procs.checks[j]
        /\ (procs.retries = 0 /\ procs.w # "idle") => n = 0

\* C39: wait_until_online(retries) always terminates; it makes at most
\* `retries` online checks, returns Ok at the first successful check without
\* checking again, and returns Err after `retries` consecutive failed checks
\* (with retries = 0, Err without any check).
C39_WaitTerminates ==
    /\ []WaitBounded
    /\ (pc = "wait" /\ procs.w = "loop") ~> Waited
    /\ (pc = "wait" /\ procs.w = "loop" /\ procs.retries = 0)
           ~> (Waited /\ procs.ret = Some(Err("Redis is not online")) /\ procs.checks = <<>>)

\* the server comes up during the wait: the third of more than three checks succeeds
C39_Witness ==
    /\ Waited
    /\ procs.retries > 3
    /\ procs.checks = <<FALSE, FALSE, TRUE>>
    /\ procs.ret = Some(Ok(Unit))

-----------------------------------------------------------------------------
(* The laws of put, get and delete on a handle of either backend           *)

\* call i is a get that came back and no put of its key reached the cache before it
NeverPut(i) ==
    /\ arrived[i].op = "get" /\ arrived[i].fault = "none"
    /\ \A j \in 1..(i - 1) :
          ~(arrived[j].op = "put" /\ arrived[j].key = arrived[i].key /\ arrived[j].served)

\* C2 as stated: put(k, v) immediately followed by get(k) on the same cache
\* returns Ok(Some(v)), and get of a key that was never put returns Ok(None).
C2_AsStated ==
    \A i \in DOMAIN arrived :
        /\ PutThenGet(i) => arrived[i + 1].ret = Ok(Some(arrived[i].val))
        /\ NeverPut(i) => arrived[i].ret = Ok(None)

\* C2: a put(k, v) that returned Ok(()), immediately followed by a get(k)
\* that meets no transport failure, returns Ok(Some(v)) on the in-memory
\* cache always and on the Redis cache when the put's timestamp is strictly
\* newer than that of every delete(k) served before it; a put that is not
\* newer is dropped by the server and the get returns Ok(None).  The get of
\* a key that was never put returns Ok(None).
C2_RoundTripUnlessTombstoned ==
    \A i \in DOMAIN arrived :
        /\ (PutThenGet(i) /\ (cache.backend = "hashmap" \/ NewerThanDeletes(i)))
           => arrived[i + 1].ret = Ok(Some(arrived[i].val))
        /\ (PutThenGet(i) /\ cache.backend = "redis" /\ ~NewerThanDeletes(i))
           => arrived[i + 1].ret = Ok(None)
        /\ NeverPut(i) => arrived[i].ret = Ok(None)

\* on the Redis handle: the key reads Ok(None) before any put, then a string
\* is put and read back
C2_Witness ==
    /\ cache.backend = "redis"
    /\ Len(arrived) = 3
    /\ NeverPut(1) /\ arrived[1].ret = Ok(None)
    /\ PutThenGet(2) /\ arrived[2].val.type = "String"
    /\ arrived[3].ret = Ok(Some(arrived[2].val))

\* the values and the tombstones a cache holds
Store(c) == IF c.backend = "redis" THEN c.srv ELSE c.map

\* the values a cache holds
StoredValues(c) == IF c.backend = "redis" THEN c.srv.vals ELSE c.map

\* this step is a delete of the one client
Deleting ==
    /\ pc = "online"
    /\ Len(arrived') = Len(arrived) + 1
    /\ arrived'[Len(arrived')].op = "delete"

\* every get of a key that directly follows a delete of it that returned Ok,
\* and that meets no transport failure, returns Ok(None)
GetAfterDelete ==
    \A i \in DOMAIN arrived :
        (/\ i + 1 \in DOMAIN arrived
         /\ arrived[i].op = "delete" /\ arrived[i].ret = Ok(Unit)
         /\ arrived[i + 1].op = "get" /\ arrived[i + 1].key = arrived[i].key
         /\ arrived[i + 1].fault = "none")
        => arrived[i + 1].ret = Ok(None)

\* C3 as stated: after delete(k) with no intervening put, get(k) returns
\* Ok(None); deleting an absent key returns Ok(()) and leaves the store
\* unchanged, so a second delete(k) ends in the state of the first.
C3_AsStated ==
    [][/\ GetAfterDelete'
       /\ (Deleting /\ arrived'[Len(arrived')].fault = "none") =>
              LET e == arrived'[Len(arrived')]
              IN /\ e.ret = Ok(Unit)
                 /\ StoredText(cache, e.key) = None => Store(cache') = Store(cache)]_vars

\* C3: after a delete(k) that returned Ok, with no intervening put, get(k)
\* returns Ok(None); a delete that meets no transport failure returns
\* Ok(()), also for an absent key; a delete that reached the cache leaves no
\* value under k, and deleting an absent key leaves the stored values
\* unchanged, so a second delete(k) leaves the values of the first.  The
\* in-memory store is then unchanged as a whole; the Redis server records
\* the timestamp of every delete it serves as the tombstone of k, so a later
\* delete of the absent key moves the tombstone.
C3_DeleteLeavesNoValue ==
    [][/\ GetAfterDelete'
       /\ Deleting =>
              LET e == arrived'[Len(arrived')]
              IN /\ e.fault = "none" => e.ret = Ok(Unit)
                 /\ e.served => StoredText(cache', e.key) = None
                 /\ ~e.served => Store(cache') = Store(cache)
                 /\ StoredText(cache, e.key) = None =>
                        StoredValues(cache') = StoredValues(cache)
                 /\ (cache.backend = "hashmap" /\ StoredText(cache, e.key) = None)
                        => cache' = cache
                 /\ (cache.backend = "redis" /\ e.served) =>
                        /\ e.key \in DOMAIN cache'.srv.tomb
                        /\ cache'.srv.tomb[e.key] = e.ts]_vars

\* on the Redis handle an absent key was deleted twice, at two clock
\* readings: the tombstone is that of the second delete
C3_Witness ==
    /\ cache.backend = "redis"
    /\ Len(arrived) = 2
    /\ arrived[1].op = "delete" /\ arrived[1].ret = Ok(Unit)
    /\ arrived[2].op = "delete" /\ arrived[2].ret = Ok(Unit)
    /\ arrived[1].ts # arrived[2].ts
    /\ cache.srv.vals = EmptyMap
    /\ cache.srv.tomb[arrived[2].key] = arrived[2].ts

====
